---- MODULE Spec2Model ----
(***************************************************************************)
(* Model of brig's stream pipeline:                                        *)
(*   - catfs/mio/encrypt.Writer  (src/catfs/mio/encrypt/writer.go)          *)
(*   - catfs/mio/compress.Reader (src/unnamed/part_006)                     *)
(*   - catfs/mio/chunkbuf.ChunkBuffer (src/unnamed/part_005)                *)
(* Each subsystem has its own specification (SpecWriter, SpecReader); the   *)
(* variables of the other subsystems stay at their initial values.          *)
(***************************************************************************)
EXTENDS Integers, Sequences, FiniteSets, TLC

(***************************************************************************)
(* Bounds of the model.                                                     *)
(***************************************************************************)
\* Largest block size (w.maxBlockSize) a Writer is constructed with.
MaxBlock == 2
\* Total number of plaintext bytes offered to one Writer (Write + ReadFrom);
\* a single Write or ReadFrom may carry all of them.
MaxBytes == 3
\* Number of sink writes that may be rejected during the life of one Writer.
MaxSinkFail == 1
\* Number of Close calls on one Writer.
MaxClose == 2

(***************************************************************************)
(* Generic helpers.                                                         *)
(***************************************************************************)
Min(a, b) == IF a < b THEN a ELSE b

Max(a, b) == IF a > b THEN a ELSE b

Take(s, n) == SubSeq(s, 1, Min(n, Len(s)))

Drop(s, n) == SubSeq(s, Min(n, Len(s)) + 1, Len(s))

Zeros(n) == [i \in 1..n |-> 0]

\* v >> (8 * k)
RECURSIVE Shr8(_, _)
Shr8(v, k) == IF k = 0 THEN v ELSE Shr8(v \div 256, k - 1)

\* Error values (Go error identities).
nil == "nil"

EOF == "io.EOF"

ErrUnexpectedEOF == "io.ErrUnexpectedEOF"

ErrBadBlockSize == "ErrBadBlockSize"

ErrMixedMethods == "ErrMixedMethods"

\* The error a rejecting sink returns from Write.
ErrSink == "ErrSink"

\* The error a failing source returns from Read.
ErrSrc == "ErrSrc"

VARIABLES
    w,          \* the encrypt.Writer struct: rbuf, blockCount, headerWritten, maxBlockSize, nonce
    sink,       \* every Write call issued to the underlying io.Writer, in order, with its outcome
    sealed,     \* every aead.Seal call made by flushPack: the nonce and the plaintext
    acked,      \* the bytes acknowledged by Write calls (returned len(p), nil), in order
    offered,    \* number of plaintext bytes offered so far (names the next fresh byte)
    wcalls,     \* bookkeeping on the calls made: closes, readFrom, sinkFails, failed
    wlast,      \* the last call on the Writer and what it returned
    obj,        \* the compressed object the compress.Reader is opened over
    r,          \* the compress.Reader struct and the position of its rawR
    rpos,       \* the plaintext cursor the caller derives from the results it got
    rfailed,    \* an earlier call returned a format error from parseTrailerIfNeeded
    rlast,      \* the last call on the Reader and what it returned
    mtab,       \* the fuse.MountTable: its mutex, its map, the filesystem it serves
    mounts,     \* the Mounts created by NewMount, in the order of creation
    gor,        \* the goroutines calling the MountTable: where each is in its call
    oneMount,   \* a fuse Mount: its caller, its serve goroutine, its options
    repo,       \* the repo.Repository: its mutex, fsMap, Owner, and the filesystems created
    rcall,      \* the goroutines calling Repository.FS: where each is in its call
    sizeAcc,    \* the util.SizeAccumulator and the goroutines writing to it
    limW,       \* a util.LimitWriter over a buffer, and the writes made to it
    hdrR,       \* a util.HeaderReader over a bytes.Reader, and what its caller has read
    preR,       \* a util seekablePrefixReader over a bytes.Reader, and what its caller has read
    cbuf,       \* a chunkbuf.ChunkBuffer used on its own, and the last call on it
    gate,       \* the gateway.Gateway, the config key it watches and the callers in it
    ftch        \* the local copy of a remote's metadata and the last doFetch on it

wvars == <<w, sink, sealed, acked, offered, wcalls, wlast>>

rvars == <<obj, r, rpos, rfailed, rlast>>

mvars == <<mtab, mounts, gor>>

yvars == <<cbuf, gate, ftch>>

\* The variables of the parts that came first.
zvars == <<wvars, rvars, mvars, oneMount, repo, rcall, sizeAcc, limW, hdrR, preR>>

xvars == <<oneMount, repo, rcall, sizeAcc, limW, hdrR, preR, yvars>>

vars == <<w, sink, sealed, acked, offered, wcalls, wlast, obj, r, rpos, rfailed, rlast,
          mtab, mounts, gor, xvars>>

(***************************************************************************)
(* encrypt.Writer                                                           *)
(***************************************************************************)
\* Size of the AEAD nonce (w.nonce), 12 bytes for both ciphers.
NonceSize == 12

\* defaultDecBufferSize, the size of ReadFrom's scratch buffer, scaled down
\* from 64 KiB the same way the block sizes are.
defaultDecBufferSize == 2

\* The i-th..(i+n-1)-th byte the caller offers; the Writer never inspects
\* plaintext, so the bytes are named by their position in the caller's stream.
Payload(start, n) == [i \in 1..n |-> (start + i) % 256]

\* binary.LittleEndian.PutUint64(b, v): the first 8 bytes of b become v in
\* little-endian order, the rest of b is untouched.
PutUint64(b, v) ==
    [i \in 1..Len(b) |-> IF i <= 8 THEN Shr8(v, i - 1) % 256 ELSE b[i]]

\* binary.LittleEndian.Uint64 of the first 8 bytes of b.
RECURSIVE Uint64LE(_, _)
Uint64LE(b, i) == IF i > 8 THEN 0 ELSE b[i] + 256 * Uint64LE(b, i + 1)

\* One Write call on the sink. m.fuel counts the sink writes that still
\* succeed before one is rejected (-1: the sink rejects none in this call).
SinkWrite(m, item) ==
    IF m.fuel = 0
    THEN [m EXCEPT !.sink = Append(@, [item EXCEPT !.ok = FALSE]),
                   !.fuel = -1, !.err = ErrSink]
    ELSE [m EXCEPT !.sink = Append(@, item),
                   !.fuel = IF @ > 0 THEN @ - 1 ELSE @]

HeaderItem == [kind |-> "header", nonce |-> <<>>, plain |-> <<>>, ok |-> TRUE]

NonceItem(n) == [kind |-> "nonce", nonce |-> n, plain |-> <<>>, ok |-> TRUE]

\* The ciphertext aead.Seal(nonce, pack) is determined by nonce and plaintext.
SealedItem(n, pack) == [kind |-> "ct", nonce |-> n, plain |-> pack, ok |-> TRUE]

\* Mutant: the header is written without recording that it was.
emitHeaderIfNeeded_NoFlag(m) ==
    IF m.headerWritten THEN m ELSE SinkWrite(m, HeaderItem)

emitHeaderIfNeeded(m) ==
    IF m.headerWritten THEN m
    ELSE SinkWrite([m EXCEPT !.headerWritten = TRUE], HeaderItem)

\* Mutant: the block counter is not advanced after the nonce is written.
flushPack_NoIncrement(m, pack) ==
    LET n  == PutUint64(m.nonce, m.blockCount)
        m1 == [m EXCEPT !.nonce = n,
                        !.sealed = Append(@, [nonce |-> n, plain |-> pack])]
        m2 == SinkWrite(m1, NonceItem(n))
    IN  IF m2.err # nil THEN m2 ELSE SinkWrite(m2, SealedItem(n, pack))

flushPack(m, pack) ==
    LET n  == PutUint64(m.nonce, m.blockCount)
        m1 == [m EXCEPT !.nonce = n,
                        !.sealed = Append(@, [nonce |-> n, plain |-> pack])]
        m2 == SinkWrite(m1, NonceItem(n))
    IN  IF m2.err # nil THEN m2
        ELSE SinkWrite([m2 EXCEPT !.blockCount = @ + 1], SealedItem(n, pack))

\* The loop of Write: flush every full block the buffer holds.
RECURSIVE WriteLoop(_)
WriteLoop(m) ==
    IF m.err # nil \/ Len(m.rbuf) < m.maxBlockSize THEN m
    ELSE WriteLoop(flushPack([m EXCEPT !.rbuf = Drop(@, m.maxBlockSize)],
                             Take(m.rbuf, m.maxBlockSize)))

Write(m, p) ==
    LET m1 == emitHeaderIfNeeded(m)
        m2 == WriteLoop(m1)
    IN  IF m1.err # nil THEN m1
        ELSE IF m2.err # nil THEN m2
        ELSE [m2 EXCEPT !.rbuf = @ \o p, !.n = Len(p)]

\* The loop of Close going on with the next block after a rejected write.
RECURSIVE CloseLoop_Retry(_)
CloseLoop_Retry(m) ==
    IF Len(m.rbuf) = 0 THEN m
    ELSE LET n == Min(Len(m.rbuf), m.maxBlockSize)
         IN  CloseLoop_Retry(flushPack([m EXCEPT !.rbuf = Drop(@, n)], Take(m.rbuf, n)))

\* The loop of Close: flush what is left, at most a block at a time.
RECURSIVE CloseLoop(_)
CloseLoop(m) ==
    IF m.err # nil \/ Len(m.rbuf) = 0 THEN m
    ELSE LET n == Min(Len(m.rbuf), m.maxBlockSize)
         IN  CloseLoop(flushPack([m EXCEPT !.rbuf = Drop(@, n)], Take(m.rbuf, n)))

\* Mutant: Close flushes everything that is left as one frame.
Close_Uncapped(m) ==
    LET m1 == emitHeaderIfNeeded(m)
    IN  IF m1.err # nil \/ Len(m1.rbuf) = 0 THEN m1
        ELSE flushPack([m1 EXCEPT !.rbuf = <<>>], m1.rbuf)

Close(m) ==
    LET m1 == emitHeaderIfNeeded(m)
    IN  IF m1.err # nil THEN m1 ELSE CloseLoop(m1)

\* io.ReadFull(r, buf) with len(buf) = size on a source that still holds src
\* and then ends with srcEnd (io.EOF, or a read error).
ReadFull(src, size, srcEnd) ==
    IF Len(src) >= size
    THEN [data |-> Take(src, size), rerr |-> nil, rest |-> Drop(src, size)]
    ELSE [data |-> src,
          rerr |-> IF srcEnd # EOF THEN srcEnd
                   ELSE IF Len(src) = 0 THEN EOF ELSE ErrUnexpectedEOF,
          rest |-> <<>>]

AtEnd(rerr) == rerr = EOF \/ rerr = ErrUnexpectedEOF

\* The loop of ReadFrom.
RECURSIVE ReadFromLoop(_, _, _, _)
ReadFromLoop(m, src, srcEnd, nprev) ==
    LET rf == ReadFull(src, defaultDecBufferSize, srcEnd)
        m1 == [m EXCEPT !.n = @ + Len(rf.data)]
        m2 == IF Len(rf.data) > 0
              THEN [flushPack(m1, rf.data) EXCEPT !.rbuf = <<>>]
              ELSE m1
    IN  IF rf.rerr # nil /\ ~AtEnd(rf.rerr) THEN [m EXCEPT !.err = rf.rerr]
        ELSE IF nprev >= 0 /\ nprev # m.maxBlockSize /\ ~AtEnd(rf.rerr)
             THEN [m1 EXCEPT !.err = ErrBadBlockSize]
        ELSE IF m2.err # nil THEN m2
        ELSE IF AtEnd(rf.rerr) THEN m2
        ELSE ReadFromLoop(m2, rf.rest, srcEnd, Len(rf.data))

\* ReadFrom without the check for bytes left by Write.
ReadFrom_NoMixedCheck(m, src, srcEnd) ==
    LET m1 == emitHeaderIfNeeded(m)
    IN  IF m1.err # nil THEN m1
        ELSE ReadFromLoop(m1, src, srcEnd, -1)

ReadFrom(m, src, srcEnd) ==
    LET m1 == emitHeaderIfNeeded(m)
    IN  IF m1.err # nil THEN m1
        ELSE IF Len(m1.rbuf) > 0 THEN [m1 EXCEPT !.err = ErrMixedMethods]
        ELSE ReadFromLoop(m1, src, srcEnd, -1)

\* NewWriterWithBlockSize: the Writer after construction.
NewWriterWithBlockSize(maxBlockSize) ==
    [rbuf |-> <<>>, blockCount |-> 0, headerWritten |-> FALSE,
     maxBlockSize |-> maxBlockSize, nonce |-> Zeros(NonceSize)]

\* The machine a call runs on: the Writer, the sink, and the call's results.
Machine(fuel) ==
    [rbuf |-> w.rbuf, blockCount |-> w.blockCount, headerWritten |-> w.headerWritten,
     maxBlockSize |-> w.maxBlockSize, nonce |-> w.nonce,
     sink |-> sink, sealed |-> sealed, fuel |-> fuel, err |-> nil, n |-> 0]

WriterOf(m) ==
    [rbuf |-> m.rbuf, blockCount |-> m.blockCount, headerWritten |-> m.headerWritten,
     maxBlockSize |-> m.maxBlockSize, nonce |-> m.nonce]

\* The sink may reject one write of a call while it has failures left: fuel
\* ranges over the sink writes the call issues when none is rejected.
Fuels(free) ==
    IF wcalls.sinkFails < MaxSinkFail
    THEN -1..(Len(free.sink) - Len(sink) - 1)
    ELSE {-1}

Finish(m, op, arg) ==
    /\ UNCHANGED rvars
    /\ UNCHANGED <<mvars, xvars>>
    /\ w' = WriterOf(m)
    /\ sink' = m.sink
    /\ sealed' = m.sealed
    /\ wlast' = [op |-> op, arg |-> arg, n |-> m.n, err |-> m.err,
                 closesBefore |-> wcalls.closes,
                 readFromBefore |-> wcalls.readFrom,
                 failsBefore |-> wcalls.sinkFails,
                 prevOp |-> wlast.op]
    /\ wcalls' = [closes |-> wcalls.closes + (IF op = "Close" THEN 1 ELSE 0),
                  readFrom |-> wcalls.readFrom \/ op = "ReadFrom",
                  sinkFails |-> wcalls.sinkFails + (IF m.err = ErrSink THEN 1 ELSE 0),
                  failed |-> wcalls.failed \/ m.err # nil]

WriterWrite ==
    \E len \in 0..(MaxBytes - offered) :
        /\ \E fuel \in Fuels(Write(Machine(-1), Payload(offered, len))) :
           LET p == Payload(offered, len)
               m == Write(Machine(fuel), p)
           IN  /\ Finish(m, "Write", len)
               /\ acked' = IF m.err = nil THEN acked \o p ELSE acked
               /\ offered' = offered + len

WriterReadFrom ==
    \E len \in 0..(MaxBytes - offered), srcEnd \in {EOF, ErrSrc} :
        /\ \E fuel \in Fuels(ReadFrom(Machine(-1), Payload(offered, len), srcEnd)) :
           LET m == ReadFrom(Machine(fuel), Payload(offered, len), srcEnd)
           IN  /\ Finish(m, "ReadFrom", len)
               /\ acked' = acked
               /\ offered' = offered + len

WriterClose ==
    \E fuel \in Fuels(Close(Machine(-1))) :
        /\ wcalls.closes < MaxClose
        /\ Finish(Close(Machine(fuel)), "Close", 0)
        /\ UNCHANGED <<acked, offered>>

WriterInit ==
    /\ \E b \in 1..MaxBlock : w = NewWriterWithBlockSize(b)
    /\ sink = <<>>
    /\ sealed = <<>>
    /\ acked = <<>>
    /\ offered = 0
    /\ wcalls = [closes |-> 0, readFrom |-> FALSE, sinkFails |-> 0, failed |-> FALSE]
    /\ wlast = [op |-> "none", arg |-> 0, n |-> 0, err |-> nil,
                closesBefore |-> 0, readFromBefore |-> FALSE, failsBefore |-> 0,
                prevOp |-> "none"]

NextWriter ==
    \/ WriterWrite
    \/ WriterReadFrom
    \/ WriterClose

(***************************************************************************)
(* chunkbuf.ChunkBuffer, as the compress.Reader uses it.                    *)
(***************************************************************************)
\* NewChunkBuffer(data), data not nil.
NewChunkBuffer(data) == [buf |-> data, readOff |-> 0, writeOff |-> 0, size |-> Len(data)]

\* ChunkBuffer.Reset, called by the Reader without data: the buffer is emptied.
ChunkBufferReset(c) == [buf |-> <<>>, readOff |-> 0, writeOff |-> 0, size |-> 0]

ChunkBufferLen(c) == c.size - c.readOff

\* ChunkBuffer.Read(p), len(p) = n: the bytes copied and the buffer afterwards.
ChunkBufferRead(c, n) ==
    LET k == Min(n, c.size - c.readOff)
    IN  [data |-> SubSeq(c.buf, c.readOff + 1, c.readOff + k),
         err  |-> IF k < n THEN EOF ELSE nil,
         c    |-> [c EXCEPT !.readOff = @ + k]]

\* ChunkBuffer.Seek(offset, io.SeekStart).
ChunkBufferSeekStart(c, offset) ==
    LET ro == Min(offset, c.size)
    IN  [c EXCEPT !.readOff = ro, !.writeOff = ro]

\* ChunkBuffer.WriteTo(w) on a sink that accepts everything.
ChunkBufferWriteTo(c) ==
    LET out == SubSeq(c.buf, c.readOff + 1, Len(c.buf))
    IN  [data |-> out, c |-> [c EXCEPT !.readOff = @ + Len(out)]]

(***************************************************************************)
(* The compressed object format (header, body, index, trailer).             *)
(***************************************************************************)
headerSize == 12

trailerSize == 16

indexChunkSize == 16

\* "cz01"
HeaderMagic == <<99, 122, 48, 49>>

\* "cztrail1"
TrailerMagic == <<99, 122, 116, 114, 97, 105, 108, 49>>

\* A non-negative value as 8 big-endian bytes.
PutUint64BE(v) == [i \in 1..8 |-> Shr8(v, 8 - i) % 256]

\* binary.BigEndian.Uint64 of b[from+1 .. from+8].
RECURSIVE Uint64BE(_, _, _, _)
Uint64BE(b, from, i, acc) ==
    IF i > 8 THEN acc ELSE Uint64BE(b, from, i + 1, acc * 256 + b[from + i])

\* int64(binary.BigEndian.Uint64(...)): two's complement, the top bit is the sign.
Int64BE(b, from) ==
    IF b[from + 1] >= 128
    THEN -(1 + Uint64BE([i \in 1..8 |-> 255 - b[from + i]], 0, 1, 0))
    ELSE Uint64BE(b, from, 1, 0)

\* AlgorithmFromType: the algorithms 0 (none) .. 3 exist.
KnownAlgorithm(a) == a \in 0..3

\* Algorithm.Encode: "none" stores the chunk as it is, the compressing
\* algorithms are stood for by a codec that prefixes the chunk with its length.
Encode(algo, chunk) == IF algo = 0 THEN chunk ELSE <<Len(chunk)>> \o chunk

\* Algorithm.Decode: the chunk and an error; a nil algorithm cannot be called.
Decode(algo, zip) ==
    IF algo < 0 THEN [data |-> <<>>, err |-> "panic"]
    ELSE IF algo = 0 THEN [data |-> zip, err |-> nil]
    ELSE IF Len(zip) >= 1 /\ zip[1] = Len(zip) - 1
         THEN [data |-> Tail(zip), err |-> nil]
         ELSE [data |-> <<>>, err |-> "ErrDecode"]

\* readHeader: the magic is checked, the algorithm is the byte after it.
readHeader(buf) ==
    IF SubSeq(buf, 1, 4) # HeaderMagic
    THEN [algo |-> 0, err |-> "ErrBadMagicNumber"]
    ELSE [algo |-> buf[5], err |-> nil]

\* trailer.unmarshal: the size of the index; it reports no error.
TrailerUnmarshal(buf) == [isNil |-> FALSE, indexSize |-> Uint64BE(buf, 0, 1, 0)]

\* record.unmarshal of the first 16 bytes of buf.
RecordUnmarshal(buf) == [rawOff |-> Int64BE(buf, 0), zipOff |-> Int64BE(buf, 8)]

(***************************************************************************)
(* The objects a Reader is opened over.                                     *)
(***************************************************************************)
\* Longest plaintext.
MaxPlain == 4
\* Uncompressed size of a chunk of the objects (all chunks but the last).
ChunkSize == 2
\* Longest p of a Read call.
MaxRead == 2

\* The plaintext of n bytes: the byte at offset k is 100 + k + 1.
Plain(n) == [i \in 1..n |-> 100 + i]

\* The chunks of plaintext p.
RECURSIVE Chunks(_)
Chunks(p) ==
    IF Len(p) = 0 THEN <<>>
    ELSE <<Take(p, ChunkSize)>> \o Chunks(Drop(p, ChunkSize))

\* The index of an object: one record per chunk start and the end record.
\* zip_off is the position in the stream the Reader seeks rawR to.
RECURSIVE IndexOf(_, _, _, _)
IndexOf(algo, chunks, rawOff, zipOff) ==
    IF chunks = <<>> THEN <<[rawOff |-> rawOff, zipOff |-> zipOff]>>
    ELSE <<[rawOff |-> rawOff, zipOff |-> zipOff]>>
         \o IndexOf(algo, Tail(chunks), rawOff + Len(Head(chunks)),
                    zipOff + Len(Encode(algo, Head(chunks))))

RECURSIVE Body(_, _)
Body(algo, chunks) ==
    IF chunks = <<>> THEN <<>>
    ELSE Encode(algo, Head(chunks)) \o Body(algo, Tail(chunks))

RecordBytes(rec) ==
    (IF rec.rawOff < 0 THEN [i \in 1..8 |-> 255] ELSE PutUint64BE(rec.rawOff))
    \o (IF rec.zipOff < 0 THEN [i \in 1..8 |-> 255] ELSE PutUint64BE(rec.zipOff))

RECURSIVE IndexBytes(_)
IndexBytes(index) ==
    IF index = <<>> THEN <<>> ELSE RecordBytes(Head(index)) \o IndexBytes(Tail(index))

HeaderBytes(magic, algo) == magic \o <<algo, 0>> \o Zeros(6)

TrailerBytes(indexSize) == PutUint64BE(indexSize) \o TrailerMagic

\* An object laid out from its parts.
Layout(magic, algo, body, index, indexSize) ==
    HeaderBytes(magic, algo) \o body \o IndexBytes(index) \o TrailerBytes(indexSize)

\* The object the compressor produces for plaintext p with algorithm algo.
MakeObject(algo, p) ==
    LET index == IndexOf(algo, Chunks(p), 0, headerSize)
    IN  [kind  |-> "wellformed",
         plain |-> p,
         bytes |-> Layout(HeaderMagic, algo, Body(algo, Chunks(p)), index,
                          indexChunkSize * Len(index))]

WellFormedObjects == {MakeObject(algo, Plain(n)) : algo \in {0, 1}, n \in 0..MaxPlain}

\* Damaged variants of the uncompressed-algorithm object of MaxPlain bytes.
DamagedObjects ==
    LET p     == Plain(MaxPlain)
        body  == Body(0, Chunks(p))
        index == IndexOf(0, Chunks(p), 0, headerSize)
        size  == indexChunkSize * Len(index)
        good  == Layout(HeaderMagic, 0, body, index, size)
        neg   == [index EXCEPT ![Len(index)] = [rawOff |-> -1, zipOff |-> @.zipOff]]
        dup   == <<index[1], index[2]>> \o SubSeq(index, 2, Len(index))
    IN  { [kind |-> "badmagic", plain |-> p,
           bytes |-> Layout(<<99, 122, 48, 50>>, 0, body, index, size)],
          [kind |-> "shortheader", plain |-> p, bytes |-> Take(good, headerSize - 1)],
          [kind |-> "badalgo", plain |-> p,
           bytes |-> Layout(HeaderMagic, 9, body, index, size)],
          [kind |-> "shorttrailer", plain |-> p, bytes |-> Take(good, trailerSize - 1)],
          [kind |-> "shortindex", plain |-> p,
           bytes |-> Layout(HeaderMagic, 0, <<>>, <<>>, size)],
          [kind |-> "negativerecord", plain |-> p,
           bytes |-> Layout(HeaderMagic, 0, body, neg, size)],
          [kind |-> "duplicaterecord", plain |-> p,
           bytes |-> Layout(HeaderMagic, 0, body, dup, indexChunkSize * Len(dup))],
          [kind |-> "norecord", plain |-> p,
           bytes |-> Layout(HeaderMagic, 0, body, <<>>, 0)] }

\* The object for the empty plaintext with a start sentinel and an end sentinel
\* record, both at raw_off 0 and at the end of the header.
SentinelObject(algo) ==
    LET sentinel == [rawOff |-> 0, zipOff |-> headerSize]
    IN  [kind  |-> "emptysentinels",
         plain |-> <<>>,
         bytes |-> Layout(HeaderMagic, algo, <<>>, <<sentinel, sentinel>>,
                          2 * indexChunkSize)]

SentinelObjects == {SentinelObject(algo) : algo \in {0, 1}}

Objects == WellFormedObjects \cup SentinelObjects \cup DamagedObjects

(***************************************************************************)
(* rawR, the io.ReadSeeker under the Reader: the bytes of obj.              *)
(***************************************************************************)
\* io.ReadFull(r.rawR, buf) with len(buf) = n: the bytes land in m.buf.
RawReadFull(m, n) ==
    LET avail == Max(Len(obj.bytes) - m.rawPos, 0)
        k     == Min(n, avail)
    IN  [m EXCEPT !.buf = SubSeq(obj.bytes, m.rawPos + 1, m.rawPos + k),
                  !.rawPos = @ + k,
                  !.err = IF k = n THEN nil
                          ELSE IF k = 0 THEN EOF ELSE ErrUnexpectedEOF]

\* r.rawR.Seek(offset, io.SeekStart / io.SeekEnd): a negative position is an error.
RawSeek(m, offset, fromEnd) ==
    LET abs == IF fromEnd THEN Len(obj.bytes) + offset ELSE offset
    IN  IF abs < 0 THEN [m EXCEPT !.err = "ErrNegativePosition"]
        ELSE [m EXCEPT !.rawPos = abs]

\* io.CopyN(r.decodeBuf, r.rawR, n): the bytes land in m.buf.
RawCopyN(m, n) ==
    LET avail == Max(Len(obj.bytes) - m.rawPos, 0)
        k     == Max(Min(n, avail), 0)
    IN  [m EXCEPT !.buf = SubSeq(obj.bytes, m.rawPos + 1, m.rawPos + k),
                  !.rawPos = @ + k,
                  !.err = IF k < n THEN EOF ELSE nil]

(***************************************************************************)
(* compress.Reader                                                          *)
(***************************************************************************)
\* r.trailer == nil
NilTrailer == [isNil |-> TRUE, indexSize |-> 0]

\* r.algo == nil
NilAlgorithm == -1

\* NewReader: the Reader after construction, rawR at position 0. The field
\* accepted records that parseTrailerIfNeeded has run to its end.
NewReader ==
    [trailer |-> NilTrailer, index |-> <<>>, chunkBuf |-> NewChunkBuffer(<<>>),
     rawSeekOffset |-> 0, zipSeekOffset |-> 0, isInitialRead |-> FALSE,
     algo |-> NilAlgorithm, rawPos |-> 0, accepted |-> FALSE]

\* sort.Search(n, f) with f(i) = index[i].off > currOff: binary search on [i, j).
RECURSIVE Search(_, _, _, _, _)
Search(index, currOff, isRawOff, i, j) ==
    IF i >= j THEN i
    ELSE LET h   == (i + j) \div 2
             off == IF isRawOff THEN index[h + 1].rawOff ELSE index[h + 1].zipOff
         IN  IF ~(off > currOff)
             THEN Search(index, currOff, isRawOff, h + 1, j)
             ELSE Search(index, currOff, isRawOff, i, h)

\* chunkLookup once sort.Search has returned i: the records (prev, curr), or a
\* panic when it indexes outside r.index.
chunkLookupAt(index, i) ==
    LET n == Len(index)
        none == [rawOff |-> 0, zipOff |-> 0]
    IN  IF i = 0
        THEN IF n >= 2 THEN [panic |-> FALSE, prev |-> index[1], curr |-> index[2]]
             ELSE [panic |-> TRUE, prev |-> none, curr |-> none]
        ELSE IF i = n
        THEN [panic |-> FALSE, prev |-> index[i], curr |-> index[i]]
        ELSE [panic |-> FALSE, prev |-> index[i], curr |-> index[i + 1]]

chunkLookup(index, currOff, isRawOff) ==
    chunkLookupAt(index, Search(index, currOff, isRawOff, 0, Len(index)))

\* The index loop with prevRecord advanced to the record just appended.
RECURSIVE BuildIndex_Advancing(_, _, _)
BuildIndex_Advancing(m, prevRecord, todo) ==
    IF todo = 0 THEN m
    ELSE LET currRecord == RecordUnmarshal(m.buf)
         IN  IF prevRecord.rawOff >= currRecord.rawOff
                \/ prevRecord.zipOff >= currRecord.zipOff
             THEN [m EXCEPT !.err = "ErrBadIndex"]
             ELSE BuildIndex_Advancing([m EXCEPT !.index = Append(@, currRecord),
                                                 !.buf = Drop(@, indexChunkSize)],
                                       currRecord, todo - 1)

\* The loop of parseTrailerIfNeeded that builds r.index from indexBuf (m.buf).
RECURSIVE BuildIndex(_, _, _)
BuildIndex(m, prevRecord, todo) ==
    IF todo = 0 THEN m
    ELSE LET currRecord == RecordUnmarshal(m.buf)
         IN  IF prevRecord.rawOff >= currRecord.rawOff
                \/ prevRecord.zipOff >= currRecord.zipOff
             THEN [m EXCEPT !.err = "ErrBadIndex"]
             ELSE BuildIndex([m EXCEPT !.index = Append(@, currRecord),
                                       !.buf = Drop(@, indexChunkSize)],
                             prevRecord, todo - 1)

\* parseTrailerIfNeeded from the read of the index on; at the end rawR is at
\* the first chunk.
ParseIndex(m) ==
    LET m6 == RawReadFull(m, m.trailer.indexSize)
        m7 == BuildIndex(m6, [rawOff |-> -1, zipOff |-> -1],
                         m.trailer.indexSize \div indexChunkSize)
        m8 == RawSeek(m7, headerSize, FALSE)
    IN  IF m6.err # nil THEN m6
        ELSE IF m7.err # nil THEN m7
        ELSE IF m8.err # nil THEN m8
        ELSE [m8 EXCEPT !.rawSeekOffset = headerSize, !.zipSeekOffset = 0,
                        !.accepted = TRUE]

\* parseTrailerIfNeeded once the trailer has been read into m.buf: r.trailer is
\* set, then the algorithm is looked up and rawR is moved to the index.
ParseTrailerRead(m, header) ==
    LET m3 == [m EXCEPT !.trailer = TrailerUnmarshal(m.buf)]
        m5 == RawSeek([m3 EXCEPT !.algo = header.algo],
                      -(m3.trailer.indexSize + trailerSize), TRUE)
    IN  IF ~KnownAlgorithm(header.algo) THEN [m3 EXCEPT !.err = "ErrBadAlgorithm"]
        ELSE IF m5.err # nil THEN m5
        ELSE ParseIndex(m5)

\* parseTrailerIfNeeded after the header has been read and accepted.
ParseTrailer(m, header) ==
    LET m1 == RawSeek(m, -trailerSize, TRUE)
        m2 == RawReadFull(m1, trailerSize)
    IN  IF m1.err # nil THEN m1
        ELSE IF m2.err # nil THEN m2
        ELSE ParseTrailerRead(m2, header)

\* parseTrailerIfNeeded once the header has been read into m.buf.
ParseHeaderRead(m, header) ==
    IF m.err # nil THEN m
    ELSE IF header.err # nil THEN [m EXCEPT !.err = header.err]
    ELSE ParseTrailer(m, header)

\* An error of parseTrailerIfNeeded is marked as its own in m.parseErr.
MarkParseErr(m) == [m EXCEPT !.parseErr = (m.err # nil)]

ParseHeader(m) == MarkParseErr(ParseHeaderRead(m, readHeader(m.buf)))

parseTrailerIfNeeded(m) ==
    IF ~m.trailer.isNil THEN m
    ELSE ParseHeader(RawReadFull(m, headerSize))

\* fixZipChunk once chunkLookup has returned look.
fixZipChunkOf(m, look) ==
    LET chunkSize == look.curr.zipOff - look.prev.zipOff
        m1 == RawSeek(m, look.prev.zipOff, FALSE)
    IN  IF look.panic THEN [m EXCEPT !.err = "panic"]
        ELSE IF chunkSize = 0 THEN [m EXCEPT !.err = EOF]
        ELSE IF m1.err # nil THEN m1
        ELSE [m1 EXCEPT !.rawSeekOffset = look.curr.zipOff,
                        !.zipSeekOffset = look.prev.rawOff,
                        !.isInitialRead = FALSE,
                        !.n = chunkSize]

\* fixZipChunk: the size of the chunk is in m.n when m.err is nil.
fixZipChunk(m) == fixZipChunkOf(m, chunkLookup(m.index, m.rawSeekOffset, FALSE))

\* readZipChunk after io.CopyN: the chunk is decoded and put in r.chunkBuf.
readZipChunkDecode(m) ==
    LET dec == Decode(m.algo, m.buf)
    IN  IF m.err # nil THEN m
        ELSE IF dec.err # nil THEN [m EXCEPT !.err = dec.err]
        ELSE [m EXCEPT !.chunkBuf = NewChunkBuffer(dec.data)]

\* readZipChunk after fixZipChunk; m.loads counts the chunks read from rawR.
readZipChunkCopy(m) ==
    IF m.err # nil THEN m
    ELSE readZipChunkDecode(RawCopyN([m EXCEPT !.loads = @ + 1], m.n))

\* readZipChunk: the decoded chunk is in m.chunkBuf (and returned) when m.err is nil.
readZipChunk(m) ==
    readZipChunkCopy(fixZipChunk([m EXCEPT !.chunkBuf = ChunkBufferReset(@)]))

\* The end of Seek without the seek inside the loaded chunk.
SeekInChunk_NoChunkSeek(m, destOff, toRead) ==
    IF m.err # nil /\ m.err # EOF THEN m
    ELSE [m EXCEPT !.err = nil, !.ret = destOff]

\* The end of Seek(destOff, io.SeekStart): an error of readZipChunk other than
\* io.EOF is returned, else r.chunkBuf is positioned and destOff returned.
SeekInChunk(m, destOff, toRead) ==
    IF m.err # nil /\ m.err # EOF THEN m
    ELSE [m EXCEPT !.chunkBuf = ChunkBufferSeekStart(@, toRead),
                   !.err = nil, !.ret = destOff]

\* Seek(destOff, io.SeekStart), destOff >= 0, once both chunkLookups have returned.
SeekToChunk(m, destOff, destLook, currLook) ==
    LET m1 == [m EXCEPT !.rawSeekOffset = destLook.prev.zipOff,
                        !.zipSeekOffset = destOff]
    IN  IF destLook.panic \/ currLook.panic THEN [m EXCEPT !.err = "panic"]
        ELSE SeekInChunk(IF currLook.prev.rawOff # destLook.prev.rawOff
                            \/ ~m.isInitialRead
                         THEN readZipChunk(m1)
                         ELSE m1,
                         destOff, destOff - destLook.prev.rawOff)

\* SeekStart without the refusal of a negative offset.
SeekStart_NoNegativeCheck(m, destOff) ==
    SeekToChunk(m, destOff, chunkLookup(m.index, destOff, TRUE),
                chunkLookup(m.index, m.zipSeekOffset, TRUE))

\* Seek(destOff, io.SeekStart) after parseTrailerIfNeeded.
SeekStart(m, destOff) ==
    IF destOff < 0 THEN [m EXCEPT !.err = EOF]
    ELSE SeekToChunk(m, destOff, chunkLookup(m.index, destOff, TRUE),
                     chunkLookup(m.index, m.zipSeekOffset, TRUE))

\* SeekWhence that resolves io.SeekEnd against the zip_off of the last record.
SeekWhence_EndByZipOff(m, destOff, whence, zipSeekOffset) ==
    IF m.err # nil THEN m
    ELSE IF whence = "SeekEnd"
    THEN IF m.index = <<>> THEN [m EXCEPT !.err = "panic"]
         ELSE SeekStart(m, m.index[Len(m.index)].zipOff + destOff)
    ELSE IF whence = "SeekCurrent" THEN SeekStart(m, zipSeekOffset + destOff)
    ELSE SeekStart(m, destOff)

\* Seek after parseTrailerIfNeeded: the offset is resolved by whence;
\* zipSeekOffset is r.zipSeekOffset at the call.
SeekWhence(m, destOff, whence, zipSeekOffset) ==
    IF m.err # nil THEN m
    ELSE IF whence = "SeekEnd"
    THEN IF m.index = <<>> THEN [m EXCEPT !.err = "panic"]
         ELSE SeekStart(m, m.index[Len(m.index)].rawOff + destOff)
    ELSE IF whence = "SeekCurrent" THEN SeekStart(m, zipSeekOffset + destOff)
    ELSE SeekStart(m, destOff)

\* Reader.Seek(destOff, whence).
Seek(m, destOff, whence) ==
    IF whence = "SeekEnd" /\ destOff > 0 THEN [m EXCEPT !.err = EOF]
    ELSE SeekWhence(parseTrailerIfNeeded(m), destOff, whence, m.zipSeekOffset)

\* The loop of Read; n is len(p), what is left of p to fill.
RECURSIVE ReadLoop(_, _)

\* The loop of Read after readZipChunk.
ReadLoopNext(m, n) == IF m.err # nil THEN m ELSE ReadLoop(m, n)

\* The loop of Read ended after the read of r.chunkBuf, p filled or not.
ReadLoopFill_NoNextChunk(m, n) == m

\* The loop of Read after the read of r.chunkBuf.
ReadLoopFill(m, n) == IF n = 0 THEN m ELSE ReadLoopNext(readZipChunk(m), n)

ReadLoop(m, n) ==
    LET rd == ChunkBufferRead(m.chunkBuf, n)
    IN  IF ChunkBufferLen(m.chunkBuf) # 0
        THEN ReadLoopFill([m EXCEPT !.chunkBuf = rd.c,
                                    !.zipSeekOffset = @ + Len(rd.data),
                                    !.data = @ \o rd.data],
                          n - Len(rd.data))
        ELSE ReadLoopFill(m, n)

\* Read after parseTrailerIfNeeded.
ReadParsed(m, n) == IF m.err # nil THEN m ELSE ReadLoop(m, n)

\* Reader.Read(p) with len(p) = n.
Read(m, n) == ReadParsed(parseTrailerIfNeeded(m), n)

\* The loop of WriteTo.
RECURSIVE WriteToLoop(_)

\* The loop of WriteTo after readZipChunk.
WriteToLoopNext(m) ==
    IF m.err = EOF THEN [m EXCEPT !.err = nil]
    ELSE IF m.err # nil THEN m
    ELSE WriteToLoop([m EXCEPT !.data = @ \o m.chunkBuf.buf])

WriteToLoop(m) == WriteToLoopNext(readZipChunk(m))

\* WriteTo that skips the copy of what is left in r.chunkBuf.
WriteToParsed_NoChunkCopy(m) ==
    IF m.err # nil THEN m ELSE WriteToLoop(m)

\* WriteTo after parseTrailerIfNeeded.
WriteToParsed(m) ==
    LET wt == ChunkBufferWriteTo(m.chunkBuf)
    IN  IF m.err # nil THEN m
        ELSE WriteToLoop([m EXCEPT !.chunkBuf = wt.c, !.data = wt.data])

\* Reader.WriteTo(w) on a sink that accepts everything.
WriteTo(m) == WriteToParsed(parseTrailerIfNeeded(m))

\* The machine a call runs on: the Reader and the call's results.
ReaderMachine ==
    [trailer |-> r.trailer, index |-> r.index, chunkBuf |-> r.chunkBuf,
     rawSeekOffset |-> r.rawSeekOffset, zipSeekOffset |-> r.zipSeekOffset,
     isInitialRead |-> r.isInitialRead, algo |-> r.algo, rawPos |-> r.rawPos,
     accepted |-> r.accepted,
     buf |-> <<>>, err |-> nil, ret |-> 0, n |-> 0, data |-> <<>>,
     parseErr |-> FALSE, loads |-> 0]

ReaderOf(m) ==
    [trailer |-> m.trailer, index |-> m.index, chunkBuf |-> m.chunkBuf,
     rawSeekOffset |-> m.rawSeekOffset, zipSeekOffset |-> m.zipSeekOffset,
     isInitialRead |-> m.isInitialRead, algo |-> m.algo, rawPos |-> m.rawPos,
     accepted |-> m.accepted]

Whences == {"SeekStart", "SeekCurrent", "SeekEnd"}

\* A call that panicked ends the program: no call follows it.
Alive == rlast.err # "panic"

\* What is known of the last call before any call was made.
NoCall ==
    [op |-> "none", arg |-> 0, whence |-> "", ret |-> 0, err |-> nil,
     data |-> <<>>, posBefore |-> 0, failedBefore |-> FALSE,
     parseErr |-> FALSE, prevOp |-> "none", prevWhence |-> "",
     writeToBefore |-> FALSE, eofBefore |-> FALSE, loads |-> 0]

\* The end of a call: the Reader is updated and the call with its results is
\* recorded, together with the cursor before it and the call that preceded it.
\* The caller's cursor rpos follows the results: the offset a successful Seek
\* returned, advanced by the bytes delivered since.
ReaderFinish(m, op, arg, whence) ==
    /\ UNCHANGED wvars
    /\ UNCHANGED <<mvars, xvars>>
    /\ UNCHANGED obj
    /\ r' = ReaderOf(m)
    /\ rlast' = [op |-> op, arg |-> arg, whence |-> whence,
                 ret |-> IF op = "Seek" THEN m.ret ELSE Len(m.data),
                 err |-> m.err, data |-> m.data, posBefore |-> rpos,
                 failedBefore |-> rfailed,
                 parseErr |-> m.parseErr,
                 prevOp |-> rlast.op, prevWhence |-> rlast.whence,
                 writeToBefore |-> (rlast.writeToBefore \/ rlast.op = "WriteTo"),
                 eofBefore |-> (op # "Seek" /\ rlast.op # "Seek"
                                /\ (rlast.eofBefore
                                    \/ (rlast.op = "Read" /\ rlast.err = EOF))),
                 loads |-> m.loads]
    /\ rfailed' = (rfailed \/ m.parseErr)
    /\ rpos' = IF op = "Seek" THEN (IF m.err = nil THEN m.ret ELSE rpos)
               ELSE rpos + Len(m.data)

ReaderRead ==
    \E n \in 0..MaxRead :
        /\ Alive
        /\ ReaderFinish(Read(ReaderMachine, n), "Read", n, "")

ReaderSeek ==
    \E destOff \in -(MaxPlain + 1)..(MaxPlain + 1), whence \in Whences :
        /\ Alive
        /\ whence = "SeekCurrent" => r.zipSeekOffset + destOff <= MaxPlain + 1
        /\ ReaderFinish(Seek(ReaderMachine, destOff, whence), "Seek", destOff, whence)

ReaderWriteTo ==
    /\ Alive
    /\ ReaderFinish(WriteTo(ReaderMachine), "WriteTo", 0, "")

ReaderInit ==
    /\ obj \in Objects
    /\ r = NewReader
    /\ rpos = 0
    /\ rfailed = FALSE
    /\ rlast = NoCall

NextReader ==
    \/ ReaderRead
    \/ ReaderSeek
    \/ ReaderWriteTo

(***************************************************************************)
(* fuse.MountTable and the Mounts it holds, called from several goroutines. *)
(***************************************************************************)
\* Number of mountpoints the callers use.
NumPaths == 2
\* Number of goroutines calling the table.
NumGoroutines == 2
\* Number of Mounts created by NewMount in one run.
MaxMounts == 2

Paths == 1..NumPaths

Goroutines == 1..NumGoroutines

\* The error of checkMountPath for a directory that has entries.
ErrNonEmptyDir == "Refusing to mount over non-empty dir"

\* The error of unmount for a path that is not in the table.
ErrNoMount == "no mount at path"

\* An error returned by NewMount (fuse.Mount, cfs.Stat or Serve failed).
ErrNewMount == "new-mount"

\* An error returned by m.conn.Close().
ErrConnClose == "conn.Close"

\* No *Mount: the zero of a table lookup that found nothing, a nil result.
NoMount == 0

\* A nil *Mount that is the value of a key of the table, or that was returned
\* together with a nil error.
NilMount == -1

\* NewMountTable: the empty table, its mutex free. fsEmpty tells whether the
\* root of the catfs.FS that the mounts serve has no entries.
NewMountTable(fsEmpty) ==
    [mu |-> 0, m |-> [p \in Paths |-> NoMount], fsEmpty |-> fsEmpty, notDir |-> FALSE]

\* A goroutine that is in no call.
IdleGoroutine ==
    [pc |-> "idle", op |-> "none", path |-> 0, found |-> NoMount, ret |-> NoMount,
     err |-> nil, entryAtLock |-> NoMount, mountsAtLock |-> 0]

\* ioutil.ReadDir(path) has entries: a directory under a fuse mount lists the
\* root of the filesystem mounted there, the directories themselves are empty.
HasFiles(path) ==
    \E i \in 1..Len(mounts) :
        mounts[i].Dir = path /\ mounts[i].mounted /\ ~mtab.fsEmpty

checkMountPath(path) == IF HasFiles(path) THEN ErrNonEmptyDir ELSE nil

\* A goroutine panicked: the program has ended.
Panicked == \E h \in Goroutines : gor[h].pc = "panic"

\* NewMount that succeeded: the Mount serves at mountpoint.
NewMount(mountpoint) == [Dir |-> mountpoint, closed |-> FALSE, mounted |-> TRUE]

\* What Mount.Close meets: fuse.Unmount succeeds within its tries or not, the
\* lazy unmount that follows a failure detaches the directory or not, and
\* m.conn.Close() returns an error or not.
CloseOutcomes ==
    {[couldUnmount |-> TRUE,  lazy |-> FALSE, connErr |-> FALSE],
     [couldUnmount |-> TRUE,  lazy |-> FALSE, connErr |-> TRUE],
     [couldUnmount |-> FALSE, lazy |-> TRUE,  connErr |-> FALSE],
     [couldUnmount |-> FALSE, lazy |-> FALSE, connErr |-> FALSE]}

\* Mount.Close: the Mount afterwards.
MountClose(mnt, out) ==
    IF mnt.closed THEN mnt
    ELSE [mnt EXCEPT !.closed = TRUE,
                     !.mounted = ~(out.couldUnmount \/ out.lazy)]

\* Mount.Close: the error returned.
MountCloseErr(mnt, out) ==
    IF ~mnt.closed /\ out.couldUnmount /\ out.connErr THEN ErrConnClose ELSE nil

\* A goroutine calls AddMount(path, opts), Unmount(path) or Close() and comes
\* to t.mu.Lock(). Which call it is and its path play no part before the
\* goroutine holds the mutex, and are recorded then.
MountCall(g) ==
    /\ gor[g].pc = "idle"
    /\ ~Panicked
    /\ gor' = [gor EXCEPT ![g] = [IdleGoroutine EXCEPT !.pc = "lock"]]
    /\ UNCHANGED <<mtab, mounts>>
    /\ UNCHANGED <<wvars, rvars, xvars>>

\* The goroutine in the body of its call, as it gets there from t.mu.Lock().
InBodyOf(op, path) ==
    [IdleGoroutine EXCEPT !.pc = "body", !.op = op, !.path = path,
                          !.entryAtLock = IF op = "Close" THEN NoMount ELSE mtab.m[path],
                          !.mountsAtLock = Len(mounts)]

\* t.mu.Lock() entered without waiting for the mutex.
MountLock_NoMutex(g) ==
    \E op \in {"AddMount", "Unmount", "Close"}, path \in Paths :
        /\ gor[g].pc = "lock"
        /\ op = "Close" => path = 1
        /\ op = "AddMount" => Len(mounts) < MaxMounts
        /\ mtab' = [mtab EXCEPT !.mu = g]
        /\ gor' = [gor EXCEPT ![g] = InBodyOf(op, path)]
        /\ UNCHANGED mounts
        /\ UNCHANGED <<wvars, rvars, xvars>>

\* t.mu.Lock(): the goroutine gets the mutex when it is free.
MountLock(g) ==
    \E op \in {"AddMount", "Unmount", "Close"}, path \in Paths :
        /\ gor[g].pc = "lock"
        /\ mtab.mu = 0
        /\ op = "Close" => path = 1
        /\ op = "AddMount" => Len(mounts) < MaxMounts
        /\ mtab' = [mtab EXCEPT !.mu = g]
        /\ gor' = [gor EXCEPT ![g] = InBodyOf(op, path)]
        /\ UNCHANGED mounts
        /\ UNCHANGED <<wvars, rvars, xvars>>

\* addMount: checkMountPath, then the lookup t.m[path].
addMountCheck(g) ==
    /\ gor[g].pc = "body"
    /\ gor[g].op = "AddMount"
    /\ gor' = [gor EXCEPT ![g] =
                 IF checkMountPath(gor[g].path) # nil
                 THEN [@ EXCEPT !.pc = "unlock", !.err = ErrNonEmptyDir]
                 ELSE IF mtab.m[gor[g].path] # NoMount
                 THEN [@ EXCEPT !.pc = "unlock", !.ret = mtab.m[gor[g].path]]
                 ELSE [@ EXCEPT !.pc = "new"]]
    /\ UNCHANGED <<mtab, mounts>>
    /\ UNCHANGED <<wvars, rvars, xvars>>

\* addMount: NewMount, and the store t.m[path] = m when it returned no error.
\* NewMount returns a Mount, or nil and an error, or, when opts.Root is not a
\* directory, nil and the nil that e.Wrapf makes of a nil error.
addMountNew(g) ==
    \E outcome \in {"ok", "error", "notdir"} :
        /\ gor[g].pc = "new"
        /\ CASE outcome = "ok" ->
                /\ mounts' = Append(mounts, NewMount(gor[g].path))
                /\ mtab' = [mtab EXCEPT !.m[gor[g].path] = Len(mounts) + 1]
                /\ gor' = [gor EXCEPT ![g].pc = "unlock", ![g].ret = Len(mounts) + 1]
             [] outcome = "error" ->
                /\ gor' = [gor EXCEPT ![g].pc = "unlock", ![g].err = ErrNewMount]
                /\ UNCHANGED <<mtab, mounts>>
             [] outcome = "notdir" ->
                /\ mtab' = [mtab EXCEPT !.m[gor[g].path] = NilMount, !.notDir = TRUE]
                /\ gor' = [gor EXCEPT ![g].pc = "unlock", ![g].ret = NilMount]
                /\ UNCHANGED mounts
        /\ UNCHANGED <<wvars, rvars, xvars>>

\* An unmount that closes the Mount first and keeps the entry when the Close
\* returned an error.
unmount_KeepOnError(g) ==
    \E out \in CloseOutcomes :
        LET id == mtab.m[gor[g].path]
        IN  /\ gor[g].pc = "body"
            /\ gor[g].op = "Unmount"
            /\ id \notin {NoMount, NilMount}
            /\ mounts' = [mounts EXCEPT ![id] = MountClose(@, out)]
            /\ mtab' = IF MountCloseErr(mounts[id], out) # nil THEN mtab
                       ELSE [mtab EXCEPT !.m[gor[g].path] = NoMount]
            /\ gor' = [gor EXCEPT ![g].pc = "unlock",
                                  ![g].err = MountCloseErr(mounts[id], out)]
            /\ UNCHANGED <<wvars, rvars, xvars>>

\* unmount: the lookup, delete(t.m, path) and m.Close(), which panics on a
\* nil Mount when it reads m.closed.
unmount(g) ==
    \E out \in CloseOutcomes :
        LET id == mtab.m[gor[g].path]
        IN  /\ gor[g].pc = "body"
            /\ gor[g].op = "Unmount"
            /\ IF id = NoMount
               THEN /\ gor' = [gor EXCEPT ![g].pc = "unlock", ![g].err = ErrNoMount]
                    /\ UNCHANGED <<mtab, mounts>>
               ELSE IF id = NilMount
               THEN /\ out = [couldUnmount |-> TRUE, lazy |-> FALSE, connErr |-> FALSE]
                    /\ mtab' = [mtab EXCEPT !.m[gor[g].path] = NoMount]
                    /\ gor' = [gor EXCEPT ![g].pc = "panic", ![g].err = "panic"]
                    /\ UNCHANGED mounts
               ELSE /\ mtab' = [mtab EXCEPT !.m[gor[g].path] = NoMount]
                    /\ mounts' = [mounts EXCEPT ![id] = MountClose(@, out)]
                    /\ gor' = [gor EXCEPT ![g].pc = "unlock",
                                          ![g].err = MountCloseErr(mounts[id], out)]
            /\ UNCHANGED <<wvars, rvars, xvars>>

\* The Mounts the table holds.
InTable == {mtab.m[p] : p \in Paths} \ {NoMount, NilMount}

\* The table has a key whose value is a nil Mount.
HasNilEntry == \E p \in Paths : mtab.m[p] = NilMount

\* MountTable.Close meets a nil Mount in its loop over the table: the Mounts
\* the loop came to before are closed, mount.Close() panics, the table stays.
MountTableClosePanic(g) ==
    \E outs \in [1..MaxMounts -> CloseOutcomes], before \in SUBSET InTable :
        /\ gor[g].pc = "body"
        /\ gor[g].op = "Close"
        /\ HasNilEntry
        /\ \A i \in 1..MaxMounts : i \notin before => outs[i] = outs[1]
        /\ mounts' = [i \in 1..Len(mounts) |->
                         IF i \in before THEN MountClose(mounts[i], outs[i])
                         ELSE mounts[i]]
        /\ gor' = [gor EXCEPT ![g].pc = "panic", ![g].err = "panic"]
        /\ UNCHANGED mtab
        /\ UNCHANGED <<wvars, rvars, xvars>>

\* MountTable.Close: every Mount of the table is closed, the table is replaced
\* by an empty one, an error of a Close is returned.
MountTableClose(g) ==
    \E outs \in [1..MaxMounts -> CloseOutcomes] :
        /\ gor[g].pc = "body"
        /\ gor[g].op = "Close"
        /\ ~HasNilEntry
        /\ \A i \in 1..MaxMounts : i \notin InTable => outs[i] = outs[1]
        /\ mounts' = [i \in 1..Len(mounts) |->
                         IF i \in InTable THEN MountClose(mounts[i], outs[i])
                         ELSE mounts[i]]
        /\ mtab' = [mtab EXCEPT !.m = [p \in Paths |-> NoMount]]
        /\ gor' = [gor EXCEPT ![g].pc = "unlock",
                              ![g].err =
                                 IF \E i \in InTable :
                                        MountCloseErr(mounts[i], outs[i]) # nil
                                 THEN ErrConnClose ELSE nil]
        /\ UNCHANGED <<wvars, rvars, xvars>>

\* defer t.mu.Unlock() and the return of the call.
MountUnlock(g) ==
    /\ gor[g].pc = "unlock"
    /\ mtab' = [mtab EXCEPT !.mu = 0]
    /\ gor' = [gor EXCEPT ![g] = IdleGoroutine]
    /\ UNCHANGED mounts
    /\ UNCHANGED <<wvars, rvars, xvars>>

MountTableInit ==
    /\ \E fsEmpty \in BOOLEAN : mtab = NewMountTable(fsEmpty)
    /\ mounts = <<>>
    /\ gor = [g \in Goroutines |-> IdleGoroutine]

NextMountTable ==
    \E g \in Goroutines :
        \/ MountCall(g)
        \/ MountLock(g)
        \/ addMountCheck(g)
        \/ addMountNew(g)
        \/ unmount(g)
        \/ MountTableClose(g)
        \/ MountTableClosePanic(g)
        \/ MountUnlock(g)

(***************************************************************************)
(* One fuse.Mount: NewMount, its serve goroutine, EqualOptions and Close.   *)
(***************************************************************************)
\* Longest Root of a MountOptions value, in characters.
MaxRootLen == 2

\* The characters the roots are made of.
PathChars == {"/", ".", "a"}

\* The values opts.Root takes: the strings of at most MaxRootLen characters.
Roots == UNION {[1..n -> PathChars] : n \in 0..MaxRootLen}

\* MountOptions: ReadOnly and Root.
MountOptionsSet == [ReadOnly : BOOLEAN, Root : Roots]

\* The elements of a path: the parts between its slashes, cur being the part
\* read so far.
RECURSIVE SplitPath(_, _)
SplitPath(p, cur) ==
    IF p = <<>> THEN <<cur>>
    ELSE IF Head(p) = "/" THEN <<cur>> \o SplitPath(Tail(p), <<>>)
    ELSE SplitPath(Tail(p), Append(cur, Head(p)))

\* path.Clean, the elements: empty elements and "." are dropped, ".." removes
\* the element before it, is dropped at the root and kept at the start of a
\* path that is not rooted.
RECURSIVE CleanElements(_, _, _)
CleanElements(cs, out, rooted) ==
    IF cs = <<>> THEN out
    ELSE IF Head(cs) = <<>> \/ Head(cs) = <<".">>
    THEN CleanElements(Tail(cs), out, rooted)
    ELSE IF Head(cs) # <<".", ".">>
    THEN CleanElements(Tail(cs), Append(out, Head(cs)), rooted)
    ELSE IF out # <<>> /\ out[Len(out)] # <<".", ".">>
    THEN CleanElements(Tail(cs), SubSeq(out, 1, Len(out) - 1), rooted)
    ELSE IF rooted THEN CleanElements(Tail(cs), out, rooted)
    ELSE CleanElements(Tail(cs), Append(out, Head(cs)), rooted)

\* The elements joined by slashes.
RECURSIVE JoinPath(_)
JoinPath(cs) ==
    IF cs = <<>> THEN <<>>
    ELSE IF Len(cs) = 1 THEN cs[1]
    ELSE cs[1] \o <<"/">> \o JoinPath(Tail(cs))

\* The cleaned elements written out: "/" before them when rooted, "." for
\* nothing.
CleanJoin(out, rooted) ==
    IF rooted THEN <<"/">> \o JoinPath(out)
    ELSE IF out = <<>> THEN <<".">>
    ELSE JoinPath(out)

\* path.Clean(p).
PathClean(p) ==
    IF p = <<>> THEN <<".">>
    ELSE CleanJoin(CleanElements(SplitPath(p, <<>>), <<>>, p[1] = "/"), p[1] = "/")

\* NewMount: opts with an empty Root replaced by "/".
DefaultRoot(opts) == IF opts.Root = <<>> THEN [opts EXCEPT !.Root = <<"/">>] ELSE opts

\* Mount.EqualOptions(opts) on a Mount whose options are stored.
EqualOptions(stored, opts) ==
    IF stored.ReadOnly # opts.ReadOnly THEN FALSE
    ELSE PathClean(stored.Root) = PathClean(opts.Root)

\* Errors of NewMount and of the serve goroutine.
ErrFuseMount == "fuse.Mount"

ErrStat == "failed to lookup root node of mount"

ErrMountError == "conn.MountError"

ErrServe == "Serve"

ErrExitedEarly == "Serve exited early"

\* The state before NewMount(cfs, mountpoint, notifier, opts) is called.
\* caller: where the goroutine that calls NewMount and Close is; srv: where
\* the goroutine started by NewMount is; surfaced: how often the value sent on
\* m.errors was received.
MountStart(opts) ==
    [caller |-> "start", srv |-> "none", srvErr |-> nil, given |-> opts,
     options |-> opts, closed |-> FALSE, couldUnmount |-> FALSE,
     isNil |-> TRUE, err |-> nil, surfaced |-> 0,
     asked |-> FALSE, askedOpts |-> opts, equal |-> FALSE]

\* The variables of the other parts.
notMnt == <<wvars, rvars, mvars, repo, rcall, sizeAcc, limW, hdrR, preR, yvars>>

\* NewMount up to its select: fuse.Mount, cfs.Stat(opts.Root), the Mount and
\* the go statement.
NewMountCall ==
    \E outcome \in {"mountfail", "staterr", "notdir", "ok"} :
        /\ oneMount.caller = "start"
        /\ oneMount' = IF outcome = "mountfail"
                  THEN [oneMount EXCEPT !.caller = "failed", !.err = ErrFuseMount]
                  ELSE IF outcome = "staterr"
                  THEN [oneMount EXCEPT !.caller = "failed", !.err = ErrStat]
                  ELSE IF outcome = "notdir"
                  THEN [oneMount EXCEPT !.caller = "failed", !.err = nil]
                  ELSE [oneMount EXCEPT !.caller = "select", !.srv = "serve",
                                   !.options = DefaultRoot(oneMount.given)]
        /\ UNCHANGED notMnt

\* mnt.server.Serve(filesys) returns in the serve goroutine, which comes to
\* the send on mnt.errors.
ServeReturn ==
    \E err \in {nil, ErrServe} :
        /\ oneMount.srv = "serve"
        /\ oneMount' = [oneMount EXCEPT !.srv = "sendErr", !.srvErr = err]
        /\ UNCHANGED notMnt

\* NewMount, case <-mnt.conn.Ready.
NewMountReady ==
    \E mountError \in BOOLEAN :
        /\ oneMount.caller = "select"
        /\ oneMount' = IF mountError
                  THEN [oneMount EXCEPT !.caller = "failed", !.err = ErrMountError]
                  ELSE [oneMount EXCEPT !.caller = "open", !.isNil = FALSE]
        /\ UNCHANGED notMnt

\* NewMount, case err = <-mnt.errors: the send of the serve goroutine meets
\* the receive, the goroutine comes to the send on mnt.done.
NewMountServeQuit ==
    /\ oneMount.caller = "select"
    /\ oneMount.srv = "sendErr"
    /\ oneMount' = [oneMount EXCEPT !.caller = "failed", !.srv = "sendDone",
                          !.err = IF oneMount.srvErr # nil THEN oneMount.srvErr ELSE ErrExitedEarly,
                          !.surfaced = @ + 1]
    /\ UNCHANGED notMnt

\* m.EqualOptions(opts) on the Mount that NewMount returned.
MountEqualOptions ==
    \E opts \in MountOptionsSet :
        /\ oneMount.caller \in {"open", "closed"}
        /\ oneMount' = [oneMount EXCEPT !.asked = TRUE, !.askedOpts = opts,
                              !.equal = EqualOptions(oneMount.options, opts)]
        /\ UNCHANGED notMnt

\* Mount.Close up to its first select: the closed flag, the unmount tries and
\* the lazy unmount. A Close of a closed Mount returns nil.
MountCloseCall ==
    \E could \in BOOLEAN :
        /\ oneMount.caller \in {"open", "closed"}
        /\ oneMount' = IF oneMount.closed THEN [oneMount EXCEPT !.err = nil]
                  ELSE [oneMount EXCEPT !.closed = TRUE, !.couldUnmount = could,
                                   !.caller = "drainErrors"]
        /\ UNCHANGED notMnt

\* Mount.Close, case err := <-m.errors.
MountCloseErrors ==
    /\ oneMount.caller = "drainErrors"
    /\ oneMount.srv = "sendErr"
    /\ oneMount' = [oneMount EXCEPT !.caller = "drainDone", !.srv = "sendDone",
                          !.surfaced = @ + 1]
    /\ UNCHANGED notMnt

\* Mount.Close, the timer of the first select.
MountCloseErrorsTimeout ==
    /\ oneMount.caller = "drainErrors"
    /\ oneMount' = [oneMount EXCEPT !.caller = "drainDone"]
    /\ UNCHANGED notMnt

\* m.conn.Close() at the end of Mount.Close: in the background when the
\* unmount failed.
MountCloseConn(m, connErr) ==
    [m EXCEPT !.caller = "closed",
              !.err = IF m.couldUnmount /\ connErr THEN ErrConnClose ELSE nil]

\* Mount.Close, case <-m.done: the send of the serve goroutine meets the
\* receive (or m.done is closed), the goroutine runs close(mnt.done) and ends.
MountCloseDone ==
    \E connErr \in BOOLEAN :
        /\ oneMount.caller = "drainDone"
        /\ oneMount.srv \in {"sendDone", "exited"}
        /\ oneMount' = MountCloseConn([oneMount EXCEPT !.srv = "exited"], connErr)
        /\ UNCHANGED notMnt

\* Mount.Close, the timer of the second select.
MountCloseDoneTimeout ==
    \E connErr \in BOOLEAN :
        /\ oneMount.caller = "drainDone"
        /\ oneMount' = MountCloseConn(oneMount, connErr)
        /\ UNCHANGED notMnt

MountInit == \E opts \in MountOptionsSet : oneMount = MountStart(opts)

NextMount ==
    \/ NewMountCall
    \/ ServeReturn
    \/ NewMountReady
    \/ NewMountServeQuit
    \/ MountEqualOptions
    \/ MountCloseCall
    \/ MountCloseErrors
    \/ MountCloseErrorsTimeout
    \/ MountCloseDone
    \/ MountCloseDoneTimeout

(***************************************************************************)
(* repo.Repository.FS, called from several goroutines.                      *)
(***************************************************************************)
\* Number of owners FS is asked for; owner 1 is the owner of the repository.
NumOwners == 2
\* Number of goroutines calling FS.
NumCallers == 2
\* Number of filesystems catfs.NewFilesystem creates in one run.
MaxFS == 3

Owners == 1..NumOwners

Callers == 1..NumCallers

\* No *catfs.FS: a nil result, an owner without entry in fsMap.
NoFS == 0

\* Errors of os.MkdirAll, catfs.NewFilesystem and fs.MakeCommit.
ErrMkdir == "MkdirAll"

ErrNewFilesystem == "NewFilesystem"

ErrMakeCommit == "MakeCommit"

\* The Repository after Open: Owner is set, fsMap is empty, the mutex is free.
\* created: the filesystems made by catfs.NewFilesystem, in order; handed: the
\* filesystems FS has returned for each owner.
OpenRepository ==
    [mu |-> 0, Owner |-> 1, fsMap |-> [o \in Owners |-> NoFS], created |-> <<>>,
     handed |-> [o \in Owners |-> {}]]

\* A goroutine that is in no call of FS.
IdleCaller ==
    [pc |-> "idle", owner |-> 1, fs |-> NoFS, ret |-> NoFS, err |-> nil,
     mapAtLock |-> [o \in Owners |-> NoFS]]

\* The variables of the other parts.
notRepo == <<wvars, rvars, mvars, oneMount, sizeAcc, limW, hdrR, preR, yvars>>

\* A goroutine calls rp.FS(owner, bk) and comes to rp.mu.Lock().
FSCall(g) ==
    \E owner \in Owners :
        /\ rcall[g].pc = "idle"
        /\ rcall' = [rcall EXCEPT ![g] = [IdleCaller EXCEPT !.pc = "lock", !.owner = owner]]
        /\ UNCHANGED <<repo, notRepo>>

\* rp.mu.Lock() entered without waiting for the mutex.
FSLock_NoMutex(g) ==
    /\ rcall[g].pc = "lock"
    /\ repo' = [repo EXCEPT !.mu = g]
    /\ rcall' = [rcall EXCEPT ![g].pc = "lookup", ![g].mapAtLock = repo.fsMap]
    /\ UNCHANGED notRepo

\* rp.mu.Lock(): the goroutine gets the mutex when it is free.
FSLock(g) ==
    /\ rcall[g].pc = "lock"
    /\ repo.mu = 0
    /\ repo' = [repo EXCEPT !.mu = g]
    /\ rcall' = [rcall EXCEPT ![g].pc = "lookup", ![g].mapAtLock = repo.fsMap]
    /\ UNCHANGED notRepo

\* The lookup rp.fsMap[owner]: an entry is returned.
FSLookup(g) ==
    /\ rcall[g].pc = "lookup"
    /\ rcall' = [rcall EXCEPT ![g] =
                    IF repo.fsMap[rcall[g].owner] # NoFS
                    THEN [@ EXCEPT !.pc = "unlock", !.ret = repo.fsMap[rcall[g].owner]]
                    ELSE [@ EXCEPT !.pc = "create"]]
    /\ UNCHANGED <<repo, notRepo>>

\* catfs.NewFilesystem(bk, fsDbPath, owner, isReadOnly, fsCfg).
NewFilesystem(owner, isReadOnly) == [owner |-> owner, readOnly |-> isReadOnly]

\* isReadOnly, os.MkdirAll and catfs.NewFilesystem.
FSCreate(g) ==
    \E outcome \in {"mkdir", "newfs", "ok"} :
        /\ rcall[g].pc = "create"
        /\ outcome = "ok" => Len(repo.created) < MaxFS
        /\ IF outcome = "ok"
           THEN /\ repo' = [repo EXCEPT !.created =
                              Append(@, NewFilesystem(rcall[g].owner,
                                                      repo.Owner # rcall[g].owner))]
                /\ rcall' = [rcall EXCEPT ![g].pc = "commit",
                                          ![g].fs = Len(repo.created) + 1]
           ELSE /\ rcall' = [rcall EXCEPT ![g].pc = "unlock",
                                          ![g].err = IF outcome = "mkdir" THEN ErrMkdir
                                                     ELSE ErrNewFilesystem]
                /\ UNCHANGED repo
        /\ UNCHANGED notRepo

\* fs.Head(), fs.MakeCommit("initial commit") when there is no commit yet, and
\* the store rp.fsMap[owner] = fs.
FSCommitStore(g) ==
    \E head \in {"found", "nosuchref", "error"}, commitFails \in BOOLEAN :
        /\ rcall[g].pc = "commit"
        /\ head # "nosuchref" => ~commitFails
        /\ IF commitFails
           THEN /\ rcall' = [rcall EXCEPT ![g].pc = "unlock", ![g].err = ErrMakeCommit]
                /\ UNCHANGED repo
           ELSE /\ repo' = [repo EXCEPT !.fsMap[rcall[g].owner] = rcall[g].fs]
                /\ rcall' = [rcall EXCEPT ![g].pc = "unlock", ![g].ret = rcall[g].fs]
        /\ UNCHANGED notRepo

\* defer rp.mu.Unlock() and the return of FS.
FSUnlock(g) ==
    /\ rcall[g].pc = "unlock"
    /\ repo' = [repo EXCEPT !.mu = 0,
                            !.handed[rcall[g].owner] =
                               IF rcall[g].ret # NoFS THEN @ \cup {rcall[g].ret} ELSE @]
    /\ rcall' = [rcall EXCEPT ![g] = IdleCaller]
    /\ UNCHANGED notRepo

RepoInit ==
    /\ repo = OpenRepository
    /\ rcall = [g \in Callers |-> IdleCaller]

NextRepo ==
    \E g \in Callers :
        \/ FSCall(g)
        \/ FSLock(g)
        \/ FSLookup(g)
        \/ FSCreate(g)
        \/ FSCommitStore(g)
        \/ FSUnlock(g)

(***************************************************************************)
(* util.SizeAccumulator, written to by several goroutines.                  *)
(***************************************************************************)
\* Number of goroutines writing to the accumulator.
NumWriters == 2
\* Longest buffer passed to one Write.
MaxWriteLen == 2
\* Number of Write calls on one accumulator.
MaxWrites == 3

AccWriters == 1..NumWriters

\* The accumulator at zero, no goroutine in a call. size: the counter;
\* returned: the sum of the lengths of the writes that have returned; seen:
\* the last value Size() returned; calls: the Write calls made; each goroutine:
\* where it is, the length of its buffer, the counter when it called; raced: a
\* Write returned after another Write had changed the counter under it.
NewSizeAccumulator ==
    [size |-> 0, returned |-> 0, seen |-> 0, raced |-> FALSE, calls |-> 0,
     g |-> [i \in AccWriters |-> [pc |-> "idle", n |-> 0, loaded |-> 0]]]

\* The variables of the other parts.
notAcc == <<wvars, rvars, mvars, oneMount, repo, rcall, limW, hdrR, preR, yvars>>

\* A goroutine calls Write(buf).
AccWrite(i) ==
    \E n \in 0..MaxWriteLen :
        /\ sizeAcc.g[i].pc = "idle"
        /\ sizeAcc.calls < MaxWrites
        /\ sizeAcc' = [sizeAcc EXCEPT !.calls = @ + 1,
                              !.g[i] = [pc |-> "add", n |-> n, loaded |-> sizeAcc.size]]
        /\ UNCHANGED notAcc

\* The counter after an increment that is a load and a later store.
AccAdd_LoadStore(a, i) == a.g[i].loaded + a.g[i].n

\* The counter after the atomic increment by len(buf).
AccAdd(a, i) == a.size + a.g[i].n

\* Write increments the counter and returns (len(buf), nil).
AccWriteReturn(i) ==
    /\ sizeAcc.g[i].pc = "add"
    /\ sizeAcc' = [sizeAcc EXCEPT !.size = AccAdd(sizeAcc, i),
                          !.returned = @ + sizeAcc.g[i].n,
                          !.raced = @ \/ (sizeAcc.g[i].n > 0
                                           /\ sizeAcc.g[i].loaded < sizeAcc.size),
                          !.g[i] = [pc |-> "idle", n |-> 0, loaded |-> 0]]
    /\ UNCHANGED notAcc

\* Size(): the counter is read.
AccSize ==
    /\ sizeAcc' = [sizeAcc EXCEPT !.seen = sizeAcc.size]
    /\ UNCHANGED notAcc

AccInit == sizeAcc = NewSizeAccumulator

NextAcc ==
    \/ \E i \in AccWriters : AccWrite(i)
    \/ \E i \in AccWriters : AccWriteReturn(i)
    \/ AccSize

(***************************************************************************)
(* util.LimitWriter over a bytes.Buffer.                                    *)
(***************************************************************************)
\* Largest limit of a LimitWriter.
MaxLimit == 3
\* Longest buffer passed to one Write of the LimitWriter.
MaxLimitBuf == 3
\* Number of Write calls on one LimitWriter.
MaxLimitWrites == 3

\* LimitWriter(inner, sz) over an empty buffer. curr: the bytes forwarded so
\* far; inner: the content of the buffer; offered: the buffers of all writes,
\* one after the other; writes: the calls made; n, err: what the last returned.
LimitWriter(sz) ==
    [sz |-> sz, curr |-> 0, inner |-> <<>>, offered |-> <<>>, writes |-> 0,
     n |-> 0, err |-> nil, lastLen |-> 0]

\* The variables of the other parts.
notLimW == <<wvars, rvars, mvars, oneMount, repo, rcall, sizeAcc, hdrR, preR, yvars>>

\* The part of buf that Write forwards, a write over the limit forwarded whole.
LimitForward_Whole(l, buf) == IF l.curr < l.sz THEN buf ELSE <<>>

\* The part of buf that Write forwards: what fits under the limit.
LimitForward(l, buf) == Take(buf, Min(Len(buf), l.sz - l.curr))

\* Write(buf): the part under the limit goes to inner, the rest is dropped,
\* and the whole buffer is reported as consumed.
LimitWrite(l, buf) ==
    [l EXCEPT !.inner = @ \o LimitForward(l, buf),
              !.curr = @ + Len(LimitForward(l, buf)),
              !.offered = @ \o buf,
              !.writes = @ + 1,
              !.n = Len(buf), !.err = nil, !.lastLen = Len(buf)]

\* A call of Write with a buffer of fresh bytes.
LimitWriterWrite ==
    \E len \in 0..MaxLimitBuf :
        /\ limW.writes < MaxLimitWrites
        /\ limW' = LimitWrite(limW, [i \in 1..len |-> Len(limW.offered) + i])
        /\ UNCHANGED notLimW

LimitWriterInit == \E sz \in 0..MaxLimit : limW = LimitWriter(sz)

NextLimitWriter == LimitWriterWrite

(***************************************************************************)
(* util.HeaderReader over a bytes.Reader.                                   *)
(***************************************************************************)
\* Longest data under a HeaderReader.
MaxData == 3
\* Largest header size of a HeaderReader.
MaxHead == 3
\* Longest buffer passed to one Read of a HeaderReader.
MaxReadBuf == 2

\* The dummy data of n bytes.
DummyBuf(n) == [i \in 1..n |-> i]

\* NewHeaderReader(bytes.NewReader(data), headMax). ipos: the position of the
\* inner reader; hdr: the header buffer; filled: the header buffer was read;
\* served: the bytes of the header buffer given to the caller; got: the bytes
\* the Reads delivered; eof: a Read returned io.EOF; reads: a Read was made;
\* peeked, peek: Peek() before the first Read and its result; asked, header:
\* Header() was the last call, and its result.
NewHeaderReader(data, headMax) ==
    [data |-> data, headMax |-> headMax, ipos |-> 0, hdr |-> <<>>, filled |-> FALSE,
     served |-> 0, got |-> <<>>, eof |-> FALSE, reads |-> FALSE,
     peeked |-> FALSE, peek |-> <<>>, asked |-> FALSE, header |-> <<>>]

\* The variables of the other parts.
notHdrR == <<wvars, rvars, mvars, oneMount, repo, rcall, sizeAcc, limW, preR, yvars>>

\* The header buffer is filled and counted as given to the caller.
HeaderFill_Consumed(h) ==
    IF h.filled THEN h
    ELSE [h EXCEPT !.filled = TRUE,
                   !.hdr = Take(Drop(h.data, h.ipos), h.headMax),
                   !.ipos = Min(Len(h.data), h.ipos + h.headMax),
                   !.served = Min(Len(h.data) - h.ipos, h.headMax)]

\* The header buffer is filled once: up to headMax bytes are read from inner
\* and kept; the caller's position stays where it is.
HeaderFill(h) ==
    IF h.filled THEN h
    ELSE [h EXCEPT !.filled = TRUE,
                   !.hdr = Take(Drop(h.data, h.ipos), h.headMax),
                   !.ipos = Min(Len(h.data), h.ipos + h.headMax)]

\* Read(p) with len(p) = n on a HeaderReader whose header buffer is filled:
\* the bytes of the header buffer first, then the bytes inner delivers;
\* bytes.Reader returns io.EOF when nothing is left.
HeaderReadFilled(h, n) ==
    IF h.served < Len(h.hdr)
    THEN [h EXCEPT !.got = @ \o Take(Drop(h.hdr, h.served), n),
                   !.served = Min(Len(h.hdr), @ + n),
                   !.reads = TRUE, !.asked = FALSE]
    ELSE IF h.ipos >= Len(h.data)
    THEN [h EXCEPT !.eof = TRUE, !.reads = TRUE, !.asked = FALSE]
    ELSE [h EXCEPT !.got = @ \o Take(Drop(h.data, h.ipos), n),
                   !.ipos = Min(Len(h.data), @ + n),
                   !.reads = TRUE, !.asked = FALSE]

\* Read(p): the first Read fills the header buffer.
HeaderRead(h, n) == HeaderReadFilled(HeaderFill(h), n)

\* Peek(): the header buffer, filled when it was not.
HeaderPeek(h) ==
    [HeaderFill(h) EXCEPT !.asked = FALSE, !.peeked = @ \/ ~h.reads,
                          !.peek = IF h.reads THEN @ ELSE HeaderFill(h).hdr]

\* Header(): the header buffer.
HeaderHeader(h) == [h EXCEPT !.asked = TRUE, !.header = h.hdr]

HeaderReaderRead ==
    \E n \in 0..MaxReadBuf :
        /\ hdrR' = HeaderRead(hdrR, n)
        /\ UNCHANGED notHdrR

HeaderReaderPeek ==
    /\ hdrR' = HeaderPeek(hdrR)
    /\ UNCHANGED notHdrR

HeaderReaderHeader ==
    /\ hdrR' = HeaderHeader(hdrR)
    /\ UNCHANGED notHdrR

HeaderReaderInit ==
    \E len \in 0..MaxData, headMax \in 0..MaxHead :
        hdrR = NewHeaderReader(DummyBuf(len), headMax)

NextHeaderReader ==
    \/ HeaderReaderRead
    \/ HeaderReaderPeek
    \/ HeaderReaderHeader

(***************************************************************************)
(* util.seekablePrefixReader over a bytes.Reader.                           *)
(***************************************************************************)
\* Longest prefix of a prefix reader.
MaxPrefix == 2
\* Longest tail of a prefix reader.
MaxTail == 3
\* Longest buffer passed to one Read of a prefix reader.
MaxPrefixRead == 2

\* makePrefixReader(data, bytes.NewReader(tail)). tpos: the position of the
\* bytes.Reader; curs: the bytes of the prefix given out; got: the bytes the
\* Reads delivered since the last Seek; eof: the last Read returned io.EOF;
\* sought, off, whence, ret, err: the last Seek and what it returned.
makePrefixReader(data, tail) ==
    [data |-> data, tail |-> tail, tpos |-> 0, curs |-> 0, got |-> <<>>,
     eof |-> FALSE, sought |-> FALSE, off |-> 0, whence |-> "", ret |-> 0, err |-> nil]

\* The variables of the other parts.
notPreR == <<wvars, rvars, mvars, oneMount, repo, rcall, sizeAcc, limW, hdrR, yvars>>

\* Read(buf) with len(buf) = n: the rest of the prefix first, then what the
\* tail delivers; bytes.Reader returns io.EOF when nothing is left.
PrefixRead(p, n) ==
    IF p.curs < Len(p.data)
    THEN [p EXCEPT !.got = @ \o Take(Drop(p.data, p.curs), n),
                   !.curs = Min(Len(p.data), @ + n), !.eof = FALSE]
    ELSE IF p.tpos >= Len(p.tail)
    THEN [p EXCEPT !.eof = TRUE]
    ELSE [p EXCEPT !.got = @ \o Take(Drop(p.tail, p.tpos), n),
                   !.tpos = Min(Len(p.tail), @ + n), !.eof = FALSE]

\* bytes.Reader.Seek: the position asked for.
SeekTarget(p, offset, whence) ==
    IF whence = "SeekStart" THEN offset
    ELSE IF whence = "SeekCurrent" THEN p.tpos + offset
    ELSE Len(p.tail) + offset

\* The cursor of the prefix after a Seek that leaves it alone.
PrefixAfterSeek_Kept(p) == p.curs

\* The cursor of the prefix after a Seek: the prefix is given out no more.
PrefixAfterSeek(p) == Len(p.data)

\* Seek(offset, whence): the Seek of the tail, which refuses a negative
\* position; the prefix is not given out after it.
PrefixSeek(p, offset, whence) ==
    IF SeekTarget(p, offset, whence) < 0
    THEN [p EXCEPT !.curs = PrefixAfterSeek(p), !.sought = TRUE, !.off = offset,
                   !.whence = whence, !.ret = 0, !.err = "ErrNegativePosition",
                   !.got = <<>>, !.eof = FALSE]
    ELSE [p EXCEPT !.curs = PrefixAfterSeek(p), !.sought = TRUE, !.off = offset,
                   !.whence = whence, !.ret = SeekTarget(p, offset, whence), !.err = nil,
                   !.tpos = SeekTarget(p, offset, whence),
                   !.got = <<>>, !.eof = FALSE]

PrefixReaderRead ==
    \E n \in 0..MaxPrefixRead :
        /\ preR' = PrefixRead(preR, n)
        /\ UNCHANGED notPreR

PrefixReaderSeek ==
    \E offset \in -1..1, whence \in Whences :
        /\ SeekTarget(preR, offset, whence) <= MaxTail + 1
        /\ preR' = PrefixSeek(preR, offset, whence)
        /\ UNCHANGED notPreR

PrefixReaderInit ==
    \E k \in 0..MaxPrefix, len \in 0..MaxTail :
        preR = makePrefixReader([i \in 1..k |-> i], [i \in 1..len |-> MaxPrefix + i])

NextPrefixReader ==
    \/ PrefixReaderRead
    \/ PrefixReaderSeek

(***************************************************************************)
(* chunkbuf.ChunkBuffer used on its own: Reset, Write, Read, Seek, WriteTo. *)
(***************************************************************************)
\* The largest buffer handed to NewChunkBuffer and Reset.
MaxChunkCap == 3

\* The largest len(p) of a Write or a Read.
MaxChunkArg == 2

\* Seek offsets are drawn from -MaxChunkSeek..MaxChunkSeek, and no Seek is
\* followed further down than -MaxChunkSeek.
MaxChunkSeek == 2

\* The calls on one buffer.
MaxChunkCalls == 4

notChunk == <<zvars, gate, ftch>>

\* The data handed to NewChunkBuffer and Reset: bytes 1..n.
ChunkData == {[i \in 1..n |-> i] : n \in 0..MaxChunkCap}

\* The bytes handed to Write: 11, 12, ...
ChunkPayload == {[i \in 1..n |-> 10 + i] : n \in 0..MaxChunkArg}

\* Go's s[lo:hi] panics unless 0 <= lo <= hi <= cap(s).
SliceInRange(lo, hi, capacity) == 0 <= lo /\ lo <= hi /\ hi <= capacity

\* ChunkBuffer.Reset(data).
ChunkBufferResetTo(c, data) == [buf |-> data, readOff |-> 0, writeOff |-> 0, size |-> Len(data)]

\* A Write that appends what does not fit, as bytes.Buffer does.
ChunkBufferWrite_Grows(c, p) ==
    LET fit  == Min(Len(p), c.size - c.writeOff)
        nbuf == [i \in 1..Max(Len(c.buf), c.writeOff + Len(p)) |->
                    IF i > c.writeOff /\ i <= c.writeOff + Len(p)
                    THEN p[i - c.writeOff] ELSE c.buf[i]]
    IN  [n |-> Len(p),
         c |-> [c EXCEPT !.buf = nbuf, !.writeOff = @ + Len(p),
                         !.size = Max(c.size, c.writeOff + Len(p))]]

\* ChunkBuffer.Write(p) where c.buf[c.writeOff:c.size] is in range:
\* copy() moves min(len(p), size - writeOff) bytes.
ChunkBufferWrite(c, p) ==
    LET n    == Min(Len(p), c.size - c.writeOff)
        nbuf == [i \in 1..Len(c.buf) |->
                    IF i > c.writeOff /\ i <= c.writeOff + n
                    THEN p[i - c.writeOff] ELSE c.buf[i]]
        wo   == c.writeOff + n
    IN  [n |-> n,
         c |-> [c EXCEPT !.buf = nbuf, !.writeOff = wo, !.size = Max(c.size, wo)]]

\* The offset a Seek aims at, before it is clamped.
ChunkSeekTarget(c, offset, whence) ==
    CASE whence = "SeekCurrent" -> c.readOff + offset
      [] whence = "SeekEnd"     -> c.size + offset
      [] OTHER                  -> offset

\* ChunkBuffer.Seek(offset, whence): the target is clamped to size from above.
ChunkBufferSeek(c, offset, whence) ==
    LET ro == Min(ChunkSeekTarget(c, offset, whence), c.size)
    IN  [c EXCEPT !.readOff = ro, !.writeOff = ro]

NoChunkCall ==
    [op |-> "none", arg |-> 0, whence |-> "none", ret |-> 0, err |-> nil,
     data |-> <<>>, before |-> NewChunkBuffer(<<>>)]

ChunkAlive == cbuf.last.err # "panic" /\ cbuf.calls < MaxChunkCalls

ChunkFinish(c, op, arg, whence, ret, err, data, negSeek) ==
    /\ cbuf' = [c       |-> c,
                calls   |-> cbuf.calls + 1,
                negSeek |-> cbuf.negSeek \/ negSeek,
                last    |-> [op |-> op, arg |-> arg, whence |-> whence, ret |-> ret,
                             err |-> err, data |-> data, before |-> cbuf.c]]
    /\ UNCHANGED notChunk

\* A call that panics on its slice expression and changes nothing.
ChunkPanic(op, arg) == ChunkFinish(cbuf.c, op, arg, "none", 0, "panic", <<>>, FALSE)

ChunkReset ==
    /\ ChunkAlive
    /\ \E data \in ChunkData :
          ChunkFinish(ChunkBufferResetTo(cbuf.c, data), "Reset", Len(data), "none", 0, nil,
                      <<>>, FALSE)

ChunkWrite ==
    /\ ChunkAlive
    /\ \E p \in ChunkPayload :
          IF SliceInRange(cbuf.c.writeOff, cbuf.c.size, Len(cbuf.c.buf))
          THEN LET res == ChunkBufferWrite(cbuf.c, p)
               IN  ChunkFinish(res.c, "Write", Len(p), "none", res.n, nil, p, FALSE)
          ELSE ChunkPanic("Write", Len(p))

ChunkRead ==
    /\ ChunkAlive
    /\ \E n \in 0..MaxChunkArg :
          IF SliceInRange(cbuf.c.readOff, cbuf.c.size, Len(cbuf.c.buf))
          THEN LET res == ChunkBufferRead(cbuf.c, n)
               IN  ChunkFinish(res.c, "Read", n, "none", Len(res.data), res.err, res.data,
                               FALSE)
          ELSE ChunkPanic("Read", n)

ChunkSeek ==
    /\ ChunkAlive
    /\ \E offset \in (0 - MaxChunkSeek)..MaxChunkSeek, whence \in Whences :
          LET target == ChunkSeekTarget(cbuf.c, offset, whence)
              c      == ChunkBufferSeek(cbuf.c, offset, whence)
          IN  /\ target >= 0 - MaxChunkSeek
              /\ ChunkFinish(c, "Seek", offset, whence, c.readOff, nil, <<>>, target < 0)

\* WriteTo(w): w takes all of c.buf[c.readOff:] or fails the Write.
ChunkWriteTo ==
    /\ ChunkAlive
    /\ \E ok \in BOOLEAN :
          IF ~SliceInRange(cbuf.c.readOff, Len(cbuf.c.buf), Len(cbuf.c.buf))
          THEN ChunkPanic("WriteTo", 0)
          ELSE IF ok
          THEN LET res == ChunkBufferWriteTo(cbuf.c)
               IN  ChunkFinish(res.c, "WriteTo", 0, "none", Len(res.data), nil, res.data,
                               FALSE)
          ELSE ChunkFinish(cbuf.c, "WriteTo", 0, "none", 0, "write error", <<>>, FALSE)

ChunkBufferStart(data) ==
    [c |-> NewChunkBuffer(data), calls |-> 0, negSeek |-> FALSE, last |-> NoChunkCall]

ChunkBufferInit == \E data \in ChunkData : cbuf = ChunkBufferStart(data)

NextChunkBuf ==
    \/ ChunkReset
    \/ ChunkWrite
    \/ ChunkRead
    \/ ChunkSeek
    \/ ChunkWriteTo

(***************************************************************************)
(* gateway.Gateway: the reloader of NewGateway, Stop and Start.             *)
(***************************************************************************)
\* The goroutines that set config keys or call Start and Stop.
NumGatewayCallers == 2

\* The servers that Start may leave listening without a reference to them.
MaxLeaked == 1

GatewayCallers == 1..NumGatewayCallers

notGate == <<zvars, cbuf, ftch>>

\* A goroutine that is in no call of the gateway.
IdleCallerOfGateway == [pc |-> "idle", call |-> "none", stopErr |-> FALSE]

\* NewGateway: isClosed is true, no server, the flag isReloading is false.
\* srv is "nil", "serving" (ListenAndServe runs), "failed" (ListenAndServe
\* returned an error) or "down" (after Shutdown).
NewGateway(enabled) ==
    [enabled |-> enabled, isClosed |-> TRUE, isReloading |-> FALSE, srv |-> "nil",
     leaked |-> 0, overlap |-> FALSE, started |-> FALSE, quit |-> FALSE,
     g |-> [c \in GatewayCallers |-> IdleCallerOfGateway]]

\* Some server of the gateway listens.
Serving == gate.srv = "serving" \/ gate.leaked > 0

\* The goroutines that are in a call.
Busy == {c \in GatewayCallers : gate.g[c].pc # "idle"}

\* A goroutine enters a call: it runs next to another one when one is busy.
Entered(c, call, pc) ==
    [gate EXCEPT !.g[c] = [pc |-> pc, call |-> call, stopErr |-> FALSE],
                 !.overlap = @ \/ Busy # {}]

\* cfg.Set of a watched key in goroutine c: the key "enabled" gets the value
\* given (another key leaves it), then the reloader is called with the key.
\* No key is set after the daemon has called Stop on its way out.
ConfigEvent(c) ==
    \E enabled \in BOOLEAN :
        /\ gate.g[c].pc = "idle"
        /\ ~gate.quit
        /\ gate' = [Entered(c, "reload", "reloader") EXCEPT !.enabled = enabled]
        /\ UNCHANGED notGate

\* Start(), called by the daemon once.
StartCall(c) ==
    /\ gate.g[c].pc = "idle"
    /\ ~gate.quit
    /\ ~gate.started
    /\ gate' = [Entered(c, "Start", "Start") EXCEPT !.started = TRUE]
    /\ UNCHANGED notGate

\* Stop(), called by the daemon when it quits.
StopCall(c) ==
    /\ gate.g[c].pc = "idle"
    /\ ~gate.quit
    /\ gate' = [Entered(c, "Stop", "Stop") EXCEPT !.quit = TRUE]
    /\ UNCHANGED notGate

\* The goroutine returns from Start or Stop to its caller: the reloader's
\* deferred function, or the daemon.
Return(c) ==
    IF gate.g[c].call = "reload" THEN [gate.g[c] EXCEPT !.pc = "deferred"]
    ELSE IdleCallerOfGateway

\* reloader: `if gw.isReloading { return }`.
ReloaderCheck(c) ==
    /\ gate.g[c].pc = "reloader"
    /\ gate' = [gate EXCEPT !.g[c] = IF gate.isReloading THEN IdleCallerOfGateway
                                     ELSE [@ EXCEPT !.pc = "setFlag"]]
    /\ UNCHANGED notGate

\* reloader: `gw.isReloading = true`, and the call of gw.Stop().
ReloaderSetFlag(c) ==
    /\ gate.g[c].pc = "setFlag"
    /\ gate' = [gate EXCEPT !.isReloading = TRUE, !.g[c].pc = "Stop"]
    /\ UNCHANGED notGate

\* Stop: `if gw.isClosed { return nil }`; after a Stop without error the
\* reloader calls gw.Start().
StopCheck(c) ==
    /\ gate.g[c].pc = "Stop"
    /\ gate' = [gate EXCEPT !.g[c] =
                   IF ~gate.isClosed THEN [@ EXCEPT !.pc = "close"]
                   ELSE IF gate.g[c].call = "reload" THEN [@ EXCEPT !.pc = "Start"]
                   ELSE IdleCallerOfGateway]
    /\ UNCHANGED notGate

\* Stop: `gw.isClosed = true` and gw.state.Close().
StopClose(c) ==
    /\ gate.g[c].pc = "close"
    /\ gate' = [gate EXCEPT !.isClosed = TRUE, !.g[c].pc = "shutdown"]
    /\ UNCHANGED notGate

\* Stop: gw.srv.Shutdown(ctx) when gw.srv is not nil. Shutdown closes the
\* listener, and returns the error of the context when the connections were
\* not idle within a second; the reloader then returns without Start.
StopShutdown(c) ==
    \E timeout \in BOOLEAN :
        /\ gate.g[c].pc = "shutdown"
        /\ gate.srv = "nil" => ~timeout
        /\ gate' = [gate EXCEPT
                      !.srv = IF gate.srv = "nil" THEN "nil" ELSE "down",
                      !.g[c] = IF gate.g[c].call # "reload" THEN IdleCallerOfGateway
                               ELSE IF timeout
                               THEN [@ EXCEPT !.pc = "deferred", !.stopErr = TRUE]
                               ELSE [@ EXCEPT !.pc = "Start"]]
        /\ UNCHANGED notGate

\* Start: `if !gw.cfg.Bool("enabled") { return }`.
StartEnabled(c) ==
    /\ gate.g[c].pc = "Start"
    /\ gate' = [gate EXCEPT !.g[c] = IF gate.enabled THEN [@ EXCEPT !.pc = "open"]
                                     ELSE Return(c)]
    /\ UNCHANGED notGate

\* Start: `gw.isClosed = false`.
StartOpen(c) ==
    /\ gate.g[c].pc = "open"
    /\ gate' = [gate EXCEPT !.isClosed = FALSE, !.g[c].pc = "startFlag"]
    /\ UNCHANGED notGate

\* Start: `gw.isReloading = true`.
StartSetFlag(c) ==
    /\ gate.g[c].pc = "startFlag"
    /\ gate' = [gate EXCEPT !.isReloading = TRUE, !.g[c].pc = "serve"]
    /\ UNCHANGED notGate

\* Start: `gw.srv = &http.Server{...}` and the goroutine of ListenAndServe,
\* which fails when a server of the gateway still listens on the same port.
\* The server gw.srv pointed to is left as it is.
StartServe(c) ==
    \E samePort \in BOOLEAN :
        /\ gate.g[c].pc = "serve"
        /\ gate.srv = "serving" => gate.leaked < MaxLeaked
        /\ ~Serving => samePort
        /\ gate' = [gate EXCEPT
                      !.srv = IF Serving /\ samePort THEN "failed" ELSE "serving",
                      !.leaked = IF gate.srv = "serving" THEN @ + 1 ELSE @,
                      !.g[c].pc = "startDeferred"]
        /\ UNCHANGED notGate

\* Start: the deferred `gw.isReloading = false`, and the return.
StartDeferred(c) ==
    /\ gate.g[c].pc = "startDeferred"
    /\ gate' = [gate EXCEPT !.isReloading = FALSE, !.g[c] = Return(c)]
    /\ UNCHANGED notGate

\* reloader: the deferred `gw.isReloading = false`, and the return.
ReloaderDeferred(c) ==
    /\ gate.g[c].pc = "deferred"
    /\ gate' = [gate EXCEPT !.isReloading = FALSE, !.g[c] = IdleCallerOfGateway]
    /\ UNCHANGED notGate

GatewayInit == \E enabled \in BOOLEAN : gate = NewGateway(enabled)

NextGateway ==
    \E c \in GatewayCallers :
        \/ ConfigEvent(c)
        \/ StartCall(c)
        \/ StopCall(c)
        \/ ReloaderCheck(c)
        \/ ReloaderSetFlag(c)
        \/ StopCheck(c)
        \/ StopClose(c)
        \/ StopShutdown(c)
        \/ StartEnabled(c)
        \/ StartOpen(c)
        \/ StartSetFlag(c)
        \/ StartServe(c)
        \/ StartDeferred(c)
        \/ ReloaderDeferred(c)

(***************************************************************************)
(* base.doFetch: the fetch of a remote's metadata.                          *)
(***************************************************************************)
\* The remotes, 1 is the owner of the repository.
NumRemotes == 2

\* The patches a remote has made are numbered 1..MaxPatchIndex.
MaxPatchIndex == 2

Remotes == 1..NumRemotes

Owner == 1

notFetch == <<zvars, cbuf, gate>>

\* An error of one of the calls doFetch makes.
ErrFetch == "fetch error"

\* What doFetch meets: p2pnet.Dial and b.repo.FS succeed or not, the answer
\* and the error of ctl.IsCompleteFetchAllowed(), and the call that fails, if
\* one does, among those that follow.
FetchOutcomes ==
    [dial : BOOLEAN, fs : BOOLEAN, isAllowed : BOOLEAN, queryFails : BOOLEAN,
     fails : {"none", "FetchStore", "Import", "LastPatchIndex", "FetchPatches", "ApplyPatches",
              "Close"}]

\* `isAllowed, err := ctl.IsCompleteFetchAllowed(); isAllowed && err != nil`.
DoesCompleteFetch(out) == out.isAllowed /\ out.queryFails

\* The calls of the function handed to withRemoteFs, in order, up to the one
\* that fails.
RECURSIVE UpTo(_, _)
UpTo(calls, failing) ==
    IF calls = <<>> THEN <<>>
    ELSE IF Head(calls) = failing THEN <<Head(calls)>>
    ELSE <<Head(calls)>> \o UpTo(Tail(calls), failing)

FetchCalls(out) ==
    <<"IsCompleteFetchAllowed">> \o
    UpTo(IF DoesCompleteFetch(out) THEN <<"FetchStore", "Import">>
         ELSE <<"LastPatchIndex", "FetchPatches", "ApplyPatches">>, out.fails)

\* doFetch(who): the calls it made on the client and on the local copy of
\* the remote, whether the fetch was applied, and the error returned, which
\* is that of ctl.Close() when the function handed to withNetClient returned
\* none.
doFetch(who, out) ==
    IF who = Owner THEN [calls |-> <<>>, applied |-> FALSE, err |-> nil]
    ELSE IF ~out.dial THEN [calls |-> <<>>, applied |-> FALSE, err |-> ErrFetch]
    ELSE IF ~out.fs THEN [calls |-> <<>>, applied |-> FALSE, err |-> ErrFetch]
    ELSE LET calls  == FetchCalls(out)
             failed == calls[Len(calls)] = out.fails
         IN  [calls |-> calls,
              applied |-> ~failed,
              err |-> IF failed \/ out.fails = "Close" THEN ErrFetch ELSE nil]

\* The local copy after the calls: Import and ApplyPatches bring it to the
\* state of the remote.
Fetched(res, who) ==
    IF res.applied THEN [ftch.local EXCEPT ![who] = ftch.remote[who]] ELSE ftch.local

FetchStart ==
    [local |-> [p \in Remotes |-> 0], remote |-> [p \in Remotes |-> 0],
     who |-> 0, out |-> [dial |-> TRUE, fs |-> TRUE, isAllowed |-> FALSE,
                         queryFails |-> FALSE, fails |-> "none"],
     calls |-> <<>>, fromIndex |-> 0, err |-> nil]

\* A remote makes a change: its patch index grows.
RemoteCommit ==
    \E p \in Remotes :
        /\ ftch.remote[p] < MaxPatchIndex
        /\ ftch' = [ftch EXCEPT !.remote[p] = @ + 1]
        /\ UNCHANGED notFetch

\* A call doFetch(who).
DoFetch ==
    \E who \in Remotes, out \in FetchOutcomes :
        LET res == doFetch(who, out)
        IN  \* the call said to fail is one that is made
            /\ (out.fails # "none" /\ res.calls # <<>>) => res.err # nil
            /\ who = Owner => out = FetchStart.out
            /\ ftch' = [local |-> Fetched(res, who), remote |-> ftch.remote, who |-> who,
                        out |-> out, calls |-> res.calls, fromIndex |-> ftch.local[who],
                        err |-> res.err]
            /\ UNCHANGED notFetch

FetchInit == ftch = FetchStart

NextFetch ==
    \/ RemoteCommit
    \/ DoFetch

(***************************************************************************)
(* Specifications: one per subsystem.                                       *)
(***************************************************************************)
WriterIdle ==
    /\ w = NewWriterWithBlockSize(1)
    /\ sink = <<>>
    /\ sealed = <<>>
    /\ acked = <<>>
    /\ offered = 0
    /\ wcalls = [closes |-> 0, readFrom |-> FALSE, sinkFails |-> 0, failed |-> FALSE]
    /\ wlast = [op |-> "none", arg |-> 0, n |-> 0, err |-> nil,
                closesBefore |-> 0, readFromBefore |-> FALSE, failsBefore |-> 0,
                prevOp |-> "none"]

ReaderIdle ==
    /\ obj = [kind |-> "none", plain |-> <<>>, bytes |-> <<>>]
    /\ r = NewReader
    /\ rpos = 0
    /\ rfailed = FALSE
    /\ rlast = NoCall

\* The MountTable when it is not used.
MountTableIdle ==
    /\ mtab = NewMountTable(TRUE)
    /\ mounts = <<>>
    /\ gor = [g \in Goroutines |-> IdleGoroutine]

\* A Mount that is not used.
MountIdle == oneMount = MountStart([ReadOnly |-> FALSE, Root |-> <<>>])

\* A Repository that is not used.
RepoIdle == RepoInit

\* The parts added after the MountTable, not used.
\* A LimitWriter that is not used.
LimitWriterIdle == limW = LimitWriter(0)

\* A HeaderReader that is not used.
HeaderReaderIdle == hdrR = NewHeaderReader(<<>>, 0)

\* A prefix reader that is not used.
PrefixReaderIdle == preR = makePrefixReader(<<>>, <<>>)

ChunkBufferIdle == cbuf = ChunkBufferStart(<<>>)

GatewayIdle == gate = NewGateway(FALSE)

FetchIdle == ftch = FetchStart

\* The parts added last, not used.
LastIdle == ChunkBufferIdle /\ GatewayIdle /\ FetchIdle

LaterIdle ==
    /\ MountIdle /\ RepoIdle /\ AccInit /\ LimitWriterIdle /\ HeaderReaderIdle /\ PrefixReaderIdle
    /\ LastIdle

InitWriter == WriterInit /\ ReaderIdle /\ MountTableIdle /\ LaterIdle

SpecWriter == InitWriter /\ [][NextWriter]_vars

InitReader == ReaderInit /\ WriterIdle /\ MountTableIdle /\ LaterIdle

SpecReader == InitReader /\ [][NextReader]_vars

InitMountTable == MountTableInit /\ WriterIdle /\ ReaderIdle /\ LaterIdle

SpecMountTable == InitMountTable /\ [][NextMountTable]_vars

InitMount ==
    /\ MountInit /\ WriterIdle /\ ReaderIdle /\ MountTableIdle /\ RepoIdle /\ AccInit
    /\ LimitWriterIdle /\ HeaderReaderIdle /\ PrefixReaderIdle /\ LastIdle

SpecMount == InitMount /\ [][NextMount]_vars

InitRepo ==
    /\ RepoInit /\ WriterIdle /\ ReaderIdle /\ MountTableIdle /\ MountIdle /\ AccInit
    /\ LimitWriterIdle /\ HeaderReaderIdle /\ PrefixReaderIdle /\ LastIdle

SpecRepo == InitRepo /\ [][NextRepo]_vars

InitAcc ==
    /\ AccInit /\ WriterIdle /\ ReaderIdle /\ MountTableIdle /\ MountIdle /\ RepoIdle
    /\ LimitWriterIdle /\ HeaderReaderIdle /\ PrefixReaderIdle /\ LastIdle

SpecAcc == InitAcc /\ [][NextAcc]_vars

InitLimitWriter ==
    /\ LimitWriterInit /\ WriterIdle /\ ReaderIdle /\ MountTableIdle /\ MountIdle /\ RepoIdle
    /\ AccInit /\ HeaderReaderIdle /\ PrefixReaderIdle /\ LastIdle

SpecLimitWriter == InitLimitWriter /\ [][NextLimitWriter]_vars

InitHeaderReader ==
    /\ HeaderReaderInit /\ WriterIdle /\ ReaderIdle /\ MountTableIdle /\ MountIdle /\ RepoIdle
    /\ AccInit /\ LimitWriterIdle /\ PrefixReaderIdle /\ LastIdle

SpecHeaderReader == InitHeaderReader /\ [][NextHeaderReader]_vars

InitPrefixReader ==
    /\ PrefixReaderInit /\ WriterIdle /\ ReaderIdle /\ MountTableIdle /\ MountIdle /\ RepoIdle
    /\ AccInit /\ LimitWriterIdle /\ HeaderReaderIdle /\ LastIdle

SpecPrefixReader == InitPrefixReader /\ [][NextPrefixReader]_vars

\* The parts that came first, not used.
FirstIdle ==
    /\ WriterIdle /\ ReaderIdle /\ MountTableIdle /\ MountIdle /\ RepoIdle
    /\ AccInit /\ LimitWriterIdle /\ HeaderReaderIdle /\ PrefixReaderIdle

InitChunkBuf == ChunkBufferInit /\ FirstIdle /\ GatewayIdle /\ FetchIdle

SpecChunkBuf == InitChunkBuf /\ [][NextChunkBuf]_vars

InitGateway == GatewayInit /\ FirstIdle /\ ChunkBufferIdle /\ FetchIdle

SpecGateway == InitGateway /\ [][NextGateway]_vars

InitFetch == FetchInit /\ FirstIdle /\ ChunkBufferIdle /\ GatewayIdle

SpecFetch == InitFetch /\ [][NextFetch]_vars

(***************************************************************************)
(* Observations on the sink.                                                *)
(***************************************************************************)
Range(s) == {s[i] : i \in DOMAIN s}

RECURSIVE Flatten(_)
Flatten(ss) == IF ss = <<>> THEN <<>> ELSE Head(ss) \o Flatten(Tail(ss))

IsOkNonce(it) == it.kind = "nonce" /\ it.ok

IsOkCt(it) == it.kind = "ct" /\ it.ok

\* The nonces that reached the sink, in order.
NoncesWritten == SelectSeq(sink, IsOkNonce)

\* The plaintext of the frames whose ciphertext reached the sink, in order.
Frames == LET cts == SelectSeq(sink, IsOkCt) IN [i \in DOMAIN cts |-> cts[i].plain]

\* The sink received a header and then whole frames only (nonce, ciphertext).
WholeFrames ==
    /\ Len(sink) % 2 = 1
    /\ sink[1] = HeaderItem
    /\ \A i \in 2..Len(sink) :
          /\ sink[i].ok
          /\ sink[i].kind = IF i % 2 = 0 THEN "nonce" ELSE "ct"

\* A run of Write calls ended by the first Close, on a sink that rejected nothing.
WritesThenClose ==
    /\ wlast.op = "Close"
    /\ wlast.err = nil
    /\ wlast.closesBefore = 0
    /\ ~wcalls.readFrom
    /\ wcalls.sinkFails = 0

(***************************************************************************)
(* C1: Write calls totalling n bytes followed by Close, on a sink that      *)
(* never fails, leave the header and exactly ceil(n/b) frames in the sink:  *)
(* every frame but the last carries b plaintext bytes, the last carries     *)
(* n mod b bytes (b when n is a positive multiple of b), no frame is empty, *)
(* and for n = 0 only the header is written.                                *)
(***************************************************************************)
C1_FramesAfterClose ==
    WritesThenClose =>
        LET n == Len(acked)
            b == w.maxBlockSize
            k == Len(Frames)
        IN  /\ n = offered
            /\ WholeFrames
            /\ k = (n + b - 1) \div b
            /\ \A i \in 1..(k - 1) : Len(Frames[i]) = b
            /\ k > 0 => Len(Frames[k]) = (IF n % b = 0 THEN b ELSE n % b)
            /\ \A i \in 1..k : Len(Frames[i]) > 0
            /\ n = 0 => sink = <<HeaderItem>>

\* Writes of 3 bytes in total with block size 1 were closed: an exact multiple.
C1_Witness ==
    /\ WritesThenClose
    /\ Len(acked) = 3
    /\ w.maxBlockSize = 1
    /\ Len(Frames) = 3

(***************************************************************************)
(* C2: the Writer issues the header write exactly once, as the first write  *)
(* it issues to the sink, whichever of Write, ReadFrom or Close is called   *)
(* first; no later call issues it again and no frame precedes it.           *)
(***************************************************************************)
C2_HeaderOnceFirst ==
    /\ wlast.op # "none" => Len(sink) >= 1
    /\ Len(sink) >= 1 => sink[1].kind = "header"
    /\ \A i \in 2..Len(sink) : sink[i].kind # "header"

\* Write, ReadFrom and Close have all been called and frames were written.
C2_Witness ==
    /\ wlast.op = "Close"
    /\ wcalls.readFrom
    /\ Len(acked) > 0
    /\ Len(Frames) >= 2

(***************************************************************************)
(* C3: the k-th nonce (zero-based) the Writer writes to the sink holds k as *)
(* a 64-bit little-endian counter followed by 4 zero bytes, every           *)
(* ciphertext follows the nonce it was sealed with, and the block counter   *)
(* never decreases, across any sequence of Write, ReadFrom and Close.       *)
(***************************************************************************)
C3_NonceState ==
    /\ \A k \in 1..Len(NoncesWritten) :
          LET n == NoncesWritten[k].nonce
          IN  /\ Len(n) = NonceSize
              /\ Uint64LE(n, 1) = k - 1
              /\ \A i \in 9..NonceSize : n[i] = 0
    /\ \A i \in 1..Len(sink) :
          sink[i].kind = "ct" =>
              /\ i > 1
              /\ IsOkNonce(sink[i - 1])
              /\ sink[i - 1].nonce = sink[i].nonce
    /\ w.blockCount = Len(NoncesWritten)

C3_NonceIsBlockIndex ==
    []C3_NonceState /\ [][w'.blockCount >= w.blockCount]_vars

\* Three frames were written, by ReadFrom and by Write/Close.
C3_Witness ==
    /\ Len(NoncesWritten) >= 3
    /\ Len(Frames) >= 3
    /\ wcalls.readFrom
    /\ Len(acked) > 0

(***************************************************************************)
(* C4: within one Writer no nonce is used to seal two blocks, also when the *)
(* sink rejects the nonce write or the ciphertext write of a frame and the  *)
(* caller goes on calling Write or Close.                                   *)
(***************************************************************************)
C4_NoncesDistinct ==
    \A i, j \in 1..Len(sealed) : i # j => sealed[i].nonce # sealed[j].nonce

(***************************************************************************)
(* C5: a successful Write(p) acknowledges len(p) bytes; after a later Close *)
(* that returns nil every acknowledged byte is in a frame that reached the  *)
(* sink, in the order it was written, and nothing remains buffered.         *)
(***************************************************************************)
AckedEmitted ==
    LET inAcked(x) == x \in Range(acked)
    IN  SelectSeq(Flatten(Frames), inAcked) = acked

C5_AckedBytesInFrames ==
    /\ (wlast.op = "Write" /\ wlast.err = nil) => wlast.n = wlast.arg
    /\ (wlast.op = "Close" /\ wlast.err = nil) => (AckedEmitted /\ w.rbuf = <<>>)

\* The same statement on the runs in which the sink rejected nothing.
C5_OnReliableSink == wcalls.sinkFails = 0 => C5_AckedBytesInFrames

\* s cut in blocks of b bytes, the last possibly shorter: the frames that
\* Write(s) followed by Close emits (C1).
RECURSIVE Blocks(_, _)
Blocks(s, b) == IF s = <<>> THEN <<>> ELSE <<Take(s, b)>> \o Blocks(Drop(s, b), b)

\* The last call was a ReadFrom that was offered every byte offered so far, on a
\* Writer that had not run ReadFrom before, with a sink that rejected nothing
\* and a source that ended with io.EOF.
LoneReadFrom ==
    /\ wlast.op = "ReadFrom"
    /\ ~wlast.readFromBefore
    /\ wcalls.sinkFails = 0
    /\ offered = wlast.arg
    /\ wlast.err # ErrSrc

(***************************************************************************)
(* C14: ReadFrom on a Writer of any block size b, over a source of any      *)
(* content that ends with io.EOF and with a sink that rejects nothing,      *)
(* returns the length of the source and no error and leaves in the sink the *)
(* frames that Write of the same bytes followed by Close leaves: blocks of  *)
(* b plaintext bytes, the last possibly shorter.                            *)
(***************************************************************************)
C14_ReadFromAsWriteClose ==
    LoneReadFrom =>
        /\ wlast.err = nil
        /\ wlast.n = wlast.arg
        /\ WholeFrames
        /\ Frames = Blocks(Payload(0, wlast.arg), w.maxBlockSize)

\* The same statement for the Writers whose block size is the size of the
\* scratch buffer of ReadFrom.
C14_WhenBlockIsScratchSize ==
    w.maxBlockSize = defaultDecBufferSize => C14_ReadFromAsWriteClose

(***************************************************************************)
(* C15: a ReadFrom called while the buffer holds bytes of an earlier Write  *)
(* returns ErrMixedMethods and 0 bytes read, issues no write to the sink    *)
(* and seals nothing, and leaves the Writer (buffer, block counter) as it   *)
(* was.                                                                     *)
(***************************************************************************)
C15_MixedStep ==
    (wlast'.op = "ReadFrom" /\ w.rbuf # <<>>)
    => /\ wlast'.err = ErrMixedMethods
       /\ wlast'.n = 0
       /\ sink' = sink
       /\ sealed' = sealed
       /\ w' = w

C15_ReadFromAfterWrite == [][C15_MixedStep]_vars

\* A ReadFrom over a non-empty source was refused with a byte in the buffer.
C15_Witness ==
    /\ wlast.op = "ReadFrom"
    /\ wlast.arg > 0
    /\ wlast.err = ErrMixedMethods
    /\ w.rbuf # <<>>
    /\ Len(Frames) = 0

(***************************************************************************)
(* C16: when the sink rejects a write (header, nonce or ciphertext), the    *)
(* call that issued it returns the sink's error and issues no further write *)
(* to the sink; a call returns the sink's error only if the sink rejected a *)
(* write of that call.                                                      *)
(***************************************************************************)
C16_SinkStep ==
    LET new == SubSeq(sink', Len(sink) + 1, Len(sink'))
        rejected == {i \in 1..Len(new) : ~new[i].ok}
    IN  /\ rejected # {} => (wlast'.err = ErrSink /\ rejected = {Len(new)})
        /\ (wlast'.err = ErrSink /\ wlast' # wlast) => rejected # {}

C16_SinkErrorVerbatim == [][C16_SinkStep]_vars

\* The sink has rejected a ciphertext write and the call returned its error.
C16_Witness ==
    /\ wlast.err = ErrSink
    /\ Len(sink) >= 3
    /\ sink[Len(sink)].kind = "ct"
    /\ ~sink[Len(sink)].ok

(***************************************************************************)
(* C17: a Close called right after a Close that returned nil returns nil    *)
(* as well, issues no write to the sink and leaves the Writer as it was.    *)
(***************************************************************************)
C17_SecondCloseStep ==
    (wlast.op = "Close" /\ wlast.err = nil
        /\ wlast'.op = "Close" /\ wcalls'.closes = wcalls.closes + 1)
    => /\ wlast'.err = nil
       /\ sink' = sink
       /\ sealed' = sealed
       /\ w' = w

C17_IdempotentClose == [][C17_SecondCloseStep]_vars

\* Two Close calls in a row after Writes that left a frame to flush.
C17_Witness ==
    /\ wlast.op = "Close"
    /\ wlast.prevOp = "Close"
    /\ wlast.closesBefore = 1
    /\ wlast.err = nil
    /\ wcalls.sinkFails = 0
    /\ Len(acked) > 0
    /\ Len(Frames) >= 1

(***************************************************************************)
(* C18: once Close has returned (nil, on a sink that rejects nothing), a    *)
(* later Write or ReadFrom of at least one byte is rejected with an error.  *)
(***************************************************************************)
C18_NoReuseAfterClose ==
    (wlast.op \in {"Write", "ReadFrom"} /\ wlast.arg > 0
        /\ wlast.closesBefore > 0 /\ wcalls.sinkFails = 0)
    => wlast.err # nil

\* C28: after successful Write and ReadFrom calls ended by the first Close,
\* itself successful, every frame except the last carries exactly block_size plaintext
\* bytes (so that frame i starts at header_size + i * (nonce_len + block_size
\* + tag_len) in the sink).
C28_FramesFullButLast ==
    (wlast.op = "Close" /\ wlast.err = nil /\ wlast.closesBefore = 0
        /\ ~wcalls.failed)
    => \A i \in 1..(Len(Frames) - 1) : Len(Frames[i]) = w.maxBlockSize

\* The same for the runs without ReadFrom.
C28_WithoutReadFrom == ~wcalls.readFrom => C28_FramesFullButLast

\* The same on a Writer whose block size is the size of the scratch buffer of
\* ReadFrom.
C28_WhenBlockIsScratchSize ==
    w.maxBlockSize = defaultDecBufferSize => C28_FramesFullButLast

\* C29: the leftover buffer is at most block_size big, and after every Write
\* that returned fewer than block_size bytes remain unflushed.
C29_LeftoverBelowBlock ==
    /\ Len(w.rbuf) <= w.maxBlockSize
    /\ (wlast.op = "Write" /\ wlast.err = nil) => Len(w.rbuf) < w.maxBlockSize

\* What a Write leaves behind: the bytes that were buffered before it, less
\* the full blocks among them, and all of p.
C29_LeftoverIsRestPlusWrite ==
    (wlast.op = "Write" /\ wlast.err = nil)
    => (Len(w.rbuf) >= wlast.arg /\ Len(w.rbuf) < wlast.arg + w.maxBlockSize)

\* C30: every byte acknowledged by Write is in a frame that was written to the
\* sink completely or is still in the buffer, also after a call that returned
\* a sink error; a Write that fails acknowledges 0 bytes.
C30_NoAckedByteDropped ==
    /\ Range(acked) \subseteq (Range(Flatten(Frames)) \cup Range(w.rbuf))
    /\ (wlast.op = "Write" /\ wlast.err # nil) => wlast.n = 0

\* The same on a sink that rejected nothing.
C30_OnReliableSink == wcalls.sinkFails = 0 => C30_NoAckedByteDropped

\* C31: no frame is written to the sink unless the complete header was
\* written before it: after a header write that the sink rejected, the header
\* is written again before any nonce or ciphertext.
C31_NoFrameWithoutHeader ==
    \A i \in 1..Len(sink) :
        (sink[i].kind # "header" /\ sink[i].ok)
        => \E j \in 1..(i - 1) : sink[j].kind = "header" /\ sink[j].ok

\* The same on a sink that accepted the header.
C31_WhenHeaderAccepted == (Len(sink) >= 1 /\ sink[1].ok) => C31_NoFrameWithoutHeader

(***************************************************************************)
(* Observations on the decompressing Reader.                                *)
(***************************************************************************)
WellFormed == obj.kind = "wellformed"

\* p[from : from+n] clipped at the end of p.
Clip(p, from, n) == SubSeq(p, from + 1, Min(from + n, Len(p)))

StrictlyIncreasing(index) ==
    \A i \in 2..Len(index) :
        /\ index[i].rawOff > index[i - 1].rawOff
        /\ index[i].zipOff > index[i - 1].zipOff

\* C6: on a well-formed object with plaintext p, Seek(o, SeekStart) with o in
\* [0, len(p)] succeeds and returns o, and a Read of n bytes from the cursor c
\* the caller is at (the value of the last successful Seek plus the bytes
\* delivered since) returns p[c : c+n] clipped at the end of p, whatever calls
\* were made before: the byte at plaintext offset k is delivered at position k.
C6_SeekConsistency ==
    WellFormed =>
        /\ (rlast.op = "Seek" /\ rlast.whence = "SeekStart"
                /\ rlast.arg \in 0..Len(obj.plain))
           => (rlast.err = nil /\ rlast.ret = rlast.arg /\ rpos = rlast.arg)
        /\ (rlast.op \in {"Read", "WriteTo"} /\ rlast.err # "panic")
           => rlast.data = Clip(obj.plain, rlast.posBefore,
                                IF rlast.op = "Read" THEN rlast.arg ELSE Len(obj.plain))

\* A Read of two bytes right after Seek(1, SeekStart), into the middle of the
\* first chunk of the compressed four-byte object, delivered p[1:3], the end of
\* the first chunk and the start of the second.
C6_Witness ==
    /\ WellFormed
    /\ Len(obj.plain) = 4
    /\ r.algo = 1
    /\ rlast.op = "Read"
    /\ rlast.prevOp = "Seek"
    /\ rlast.prevWhence = "SeekStart"
    /\ rlast.posBefore = 1
    /\ rlast.arg = 2
    /\ rlast.data = <<102, 103>>

\* C7: on a well-formed object, Seek(d, SeekCurrent) made after Reads and Seeks
\* only, with the cursor at plaintext offset c (c + d not negative), succeeds
\* and returns c + d; for d = 0 it returns c.
C7_SeekCurrentFromCursor ==
    (WellFormed /\ rlast.op = "Seek" /\ rlast.whence = "SeekCurrent"
        /\ ~rlast.writeToBefore
        /\ rlast.posBefore + rlast.arg >= 0)
    => (rlast.err = nil /\ rlast.ret = rlast.posBefore + rlast.arg)

\* C8: on a well-formed object with plaintext p, Seek(d, SeekEnd) with d <= 0
\* resolves to len(p) + d: it returns len(p) + d when that is not negative
\* (len(p) for d = 0) and refuses a negative position as SeekStart does; len(p)
\* is the raw_off of the last index record.
C8_SizeAgreement ==
    (WellFormed /\ rlast.op = "Seek" /\ rlast.whence = "SeekEnd" /\ rlast.arg <= 0)
    => /\ r.index # <<>>
       /\ r.index[Len(r.index)].rawOff = Len(obj.plain)
       /\ IF Len(obj.plain) + rlast.arg >= 0
          THEN rlast.err = nil /\ rlast.ret = Len(obj.plain) + rlast.arg
                               /\ rpos = Len(obj.plain) + rlast.arg
          ELSE rlast.err = EOF

\* Seek(0, SeekEnd) after a Read returned 3, the size of the compressed
\* three-byte object.
C8_Witness ==
    /\ WellFormed
    /\ Len(obj.plain) = 3
    /\ r.algo = 1
    /\ rlast.op = "Seek"
    /\ rlast.whence = "SeekEnd"
    /\ rlast.arg = 0
    /\ rlast.prevOp = "Read"
    /\ rlast.ret = 3

\* Seek(-1, SeekEnd) on the four-byte object returned 3.
C8_WitnessNegative ==
    /\ WellFormed
    /\ Len(obj.plain) = 4
    /\ rlast.op = "Seek"
    /\ rlast.whence = "SeekEnd"
    /\ rlast.arg = -1
    /\ rlast.ret = 3
    /\ rlast.err = nil

\* C9: once a call has failed in parsing the format (header, algorithm,
\* trailer, index), every later Seek, WriteTo and Read into a non-empty p
\* fails, and no later call delivers data.
C9_FormatErrorsSticky ==
    rlast.failedBefore =>
        /\ rlast.data = <<>>
        /\ (rlast.op = "Read" /\ rlast.arg = 0) \/ rlast.err # nil

\* C10: an index the Reader has accepted is strictly increasing in raw_off and
\* in zip_off.
C10_AcceptedIndexMonotonic == r.accepted => StrictlyIncreasing(r.index)

\* An object the compressor writes, or the empty object with two sentinels.
Compressed == obj.kind \in {"wellformed", "emptysentinels"}

Target == IF rlast.whence = "SeekEnd" THEN Len(obj.plain) + rlast.arg ELSE rlast.arg

\* C12: on a compressed object, a Seek by io.SeekStart or io.SeekEnd to an
\* offset beyond the end of the plaintext succeeds, and a Read into a non-empty
\* p made with the cursor at or beyond the end returns 0 bytes and io.EOF.
C12_SeekBeyondEnd ==
    Compressed =>
        /\ (rlast.op = "Seek" /\ rlast.whence \in {"SeekStart", "SeekEnd"}
                /\ Target > Len(obj.plain))
           => rlast.err = nil
        /\ (rlast.op = "Read" /\ rlast.arg > 0 /\ rlast.posBefore >= Len(obj.plain))
           => (rlast.data = <<>> /\ rlast.err = EOF)

\* The part of C12 that the Reader keeps: Seek(o, SeekStart) with o beyond the
\* end succeeds and returns o, and the Read after it returns 0 bytes and io.EOF.
C12_BeyondEndBySeekStart ==
    Compressed =>
        /\ (rlast.op = "Seek" /\ rlast.whence = "SeekStart"
                /\ rlast.arg > Len(obj.plain))
           => (rlast.err = nil /\ rlast.ret = rlast.arg)
        /\ (rlast.op = "Read" /\ rlast.arg > 0 /\ rlast.posBefore >= Len(obj.plain))
           => (rlast.data = <<>> /\ rlast.err = EOF)

\* C13: on a compressed object with plaintext p, WriteTo called with the cursor
\* at offset c writes exactly p[c:] to the sink (nothing when c is at or beyond
\* the end), in order, returns the number of bytes written, len(p) - c, and no
\* error, whatever calls were made before.
C13_WriteToRemainder ==
    (Compressed /\ rlast.op = "WriteTo")
    => /\ rlast.err = nil
       /\ rlast.data = SubSeq(obj.plain, rlast.posBefore + 1, Len(obj.plain))
       /\ rlast.ret = Max(Len(obj.plain) - rlast.posBefore, 0)
       /\ rpos = Max(rlast.posBefore, Len(obj.plain))

\* WriteTo right after Seek(1, SeekStart), into the middle of the first chunk of
\* the compressed four-byte object, wrote p[1:] and returned 3.
C13_Witness ==
    /\ WellFormed
    /\ Len(obj.plain) = 4
    /\ r.algo = 1
    /\ rlast.op = "WriteTo"
    /\ rlast.prevOp = "Seek"
    /\ rlast.prevWhence = "SeekStart"
    /\ rlast.posBefore = 1
    /\ rlast.data = <<102, 103, 104>>
    /\ rlast.ret = 3

\* WriteTo after a Read of one byte wrote the rest of the chunk and the chunks
\* after it.
C13_WitnessAfterRead ==
    /\ WellFormed
    /\ Len(obj.plain) = 3
    /\ rlast.op = "WriteTo"
    /\ rlast.prevOp = "Read"
    /\ rlast.posBefore = 1
    /\ rlast.data = <<102, 103>>

\* The absolute offset the Seek of this step asks for, by the caller's cursor.
NextTarget ==
    CASE rlast'.whence = "SeekEnd" -> Len(obj.plain) + rlast'.arg
      [] rlast'.whence = "SeekCurrent" -> rpos + rlast'.arg
      [] OTHER -> rlast'.arg

\* C19: on a compressed object, a Seek that resolves to a negative offset
\* returns an error (io.EOF) and leaves the plaintext cursor and the buffered
\* chunk as they were; the whole Reader, with its position in the compressed
\* stream, is left as it was when it had parsed the object before, and is at the
\* first chunk when this Seek was the call that parsed it.
C19_NegativeSeekStep ==
    (Compressed /\ rlast'.op = "Seek" /\ NextTarget < 0)
    => /\ rlast'.err = EOF
       /\ rpos' = rpos
       /\ r'.zipSeekOffset = r.zipSeekOffset
       /\ r'.chunkBuf = r.chunkBuf
       /\ r.accepted => r' = r
       /\ ~r.accepted => (r'.rawSeekOffset = headerSize /\ r'.rawPos = headerSize)

C19_WitnessSeekEnd ==
    /\ Compressed
    /\ rlast.op = "Seek"
    /\ rlast.whence = "SeekEnd"
    /\ Len(obj.plain) + rlast.arg < 0
    /\ rlast.err = EOF
    /\ rlast.prevOp = "Read"

(***************************************************************************)
(* Observations on the MountTable.                                          *)
(***************************************************************************)
\* The goroutines that are between t.mu.Lock() and t.mu.Unlock().
InBody == {g \in Goroutines : gor[g].pc \in {"body", "new", "unlock"}}

\* The table bodies run mutually exclusive: at most one goroutine is between
\* Lock and Unlock, and it is the one that holds the mutex.
C20_MutualExclusion ==
    /\ Cardinality(InBody) <= 1
    /\ \A g \in InBody : mtab.mu = g

\* At most one Mount per mountpoint: a Mount that is not closed is the entry of
\* the table for its mountpoint, an entry of the table is a Mount of that
\* mountpoint.
C20_OneMountPerPath ==
    /\ \A i \in 1..Len(mounts) : ~mounts[i].closed => mtab.m[mounts[i].Dir] = i
    /\ \A p \in Paths : mtab.m[p] \in InTable => mounts[mtab.m[p]].Dir = p

\* AddMount for a path that the table held when the call got the mutex has
\* returned the Mount of the table and no error, and has created no Mount.
C20_ExistingReturned ==
    \A g \in Goroutines :
        (gor[g].pc = "unlock" /\ gor[g].op = "AddMount" /\ gor[g].entryAtLock # NoMount)
        => /\ gor[g].ret = gor[g].entryAtLock
           /\ gor[g].err = nil
           /\ Len(mounts) = gor[g].mountsAtLock

\* C20: for any interleaving of AddMount, Unmount and Close by several
\* goroutines the table bodies run mutually exclusive, the table holds at most
\* one Mount per mountpoint, and AddMount for a path already in the table
\* returns the existing Mount without creating a second one.
C20_MountTableSafe ==
    /\ C20_MutualExclusion
    /\ C20_OneMountPerPath
    /\ C20_ExistingReturned

\* The same when the filesystem the mounts serve has no entry in its root.
C20_ExistingReturnedOnEmptyFs == mtab.fsEmpty => C20_ExistingReturned

\* A second AddMount for a mounted path has returned.
C20_Witness ==
    \E g \in Goroutines :
        /\ gor[g].pc = "unlock"
        /\ gor[g].op = "AddMount"
        /\ gor[g].entryAtLock # NoMount
        /\ \E h \in Goroutines \ {g} : gor[h].pc = "lock"

(***************************************************************************)
(* Observations on the entries of the MountTable.                           *)
(***************************************************************************)
\* An AddMount that returns no Mount returns an error.
NilMountHasError ==
    \A g \in Goroutines :
        (gor[g].pc = "unlock" /\ gor[g].op = "AddMount" /\ gor[g].ret \in {NoMount, NilMount})
        => gor[g].err # nil

(***************************************************************************)
(* C37: every entry of the MountTable is a Mount that was created: NewMount *)
(* returns an error whenever it returns no Mount, also for a root that is   *)
(* not a directory, so no nil Mount is stored and neither Unmount nor Close *)
(* dereferences one.                                                        *)
(***************************************************************************)
C37_NoNilMount ==
    /\ ~HasNilEntry
    /\ NilMountHasError
    /\ ~Panicked

\* C37 for the runs in which every root given to NewMount was a directory.
C37_WhenRootsAreDirs == ~mtab.notDir => C37_NoNilMount

\* C37: AddMount has returned a nil Mount without an error and the table holds
\* it.
C37_WitnessStored ==
    \E g \in Goroutines :
        /\ gor[g].pc = "unlock"
        /\ gor[g].op = "AddMount"
        /\ gor[g].ret = NilMount
        /\ gor[g].err = nil
        /\ mtab.m[gor[g].path] = NilMount

\* C37: Unmount has panicked on the nil Mount of the table.
C37_WitnessUnmountPanic ==
    \E g \in Goroutines : gor[g].pc = "panic" /\ gor[g].op = "Unmount"

\* C37: Close has panicked on the nil Mount of the table.
C37_WitnessClosePanic ==
    \E g \in Goroutines : gor[g].pc = "panic" /\ gor[g].op = "Close"

(***************************************************************************)
(* C38: Unmount(path) for a path that is not in the table returns an error  *)
(* and leaves the table as it was; for a path in the table it closes that   *)
(* Mount and deletes the entry, also when the Close returns an error;       *)
(* MountTable.Close closes every Mount left and leaves the table empty.     *)
(***************************************************************************)
C38_UnmountStep(g) ==
    (gor[g].pc = "body" /\ gor[g].op = "Unmount" /\ gor'[g].pc = "unlock") =>
        LET id == mtab.m[gor[g].path]
        IN  IF id = NoMount
            THEN /\ gor'[g].err # nil
                 /\ mtab'.m = mtab.m
                 /\ mounts' = mounts
            ELSE /\ mounts'[id].closed
                 /\ mtab'.m = [mtab.m EXCEPT ![gor[g].path] = NoMount]
                 /\ \A i \in 1..Len(mounts) : i # id => mounts'[i] = mounts[i]

C38_CloseStep(g) ==
    (gor[g].pc = "body" /\ gor[g].op = "Close" /\ gor'[g].pc = "unlock") =>
        /\ \A i \in InTable : mounts'[i].closed
        /\ \A p \in Paths : mtab'.m[p] = NoMount
        /\ \A i \in 1..Len(mounts) : i \notin InTable => mounts'[i] = mounts[i]

C38_UnmountAndCloseStep == \A g \in Goroutines : C38_UnmountStep(g) /\ C38_CloseStep(g)

C38_UnmountAndClose == [][C38_UnmountAndCloseStep]_vars

\* C38: an Unmount returned the error of the Mount's Close, the Mount is closed
\* and its entry is gone.
C38_Witness ==
    \E g \in Goroutines :
        /\ gor[g].pc = "unlock"
        /\ gor[g].op = "Unmount"
        /\ gor[g].err = ErrConnClose
        /\ gor[g].entryAtLock \in 1..Len(mounts)
        /\ mounts[gor[g].entryAtLock].closed
        /\ mtab.m[gor[g].path] = NoMount

\* C38: an Unmount of a path that is not in the table returned its error.
C38_WitnessUnknown ==
    \E g \in Goroutines :
        /\ gor[g].pc = "unlock"
        /\ gor[g].op = "Unmount"
        /\ gor[g].err = ErrNoMount
        /\ InTable # {}

\* C38: a Close of a table that held two Mounts has emptied it.
C38_WitnessClose ==
    \E g \in Goroutines :
        /\ gor[g].pc = "unlock"
        /\ gor[g].op = "Close"
        /\ Len(mounts) = MaxMounts
        /\ \A i \in 1..Len(mounts) : mounts[i].closed
        /\ \A p \in Paths : mtab.m[p] = NoMount

(***************************************************************************)
(* Observations on one Mount.                                               *)
(***************************************************************************)
\* NewMount has returned without a Mount, or Close has returned: no receive on
\* m.errors or m.done is left in the program.
CallerReturned == oneMount.caller \in {"failed", "closed"}

\* C21: after NewMount has returned (with a Mount, with a mount error or with
\* "Serve exited early") and after Mount.Close has returned (also when its
\* waits timed out), the serve goroutine is not left blocked on a send to the
\* errors or the done channel, and the error of Serve was received exactly
\* once when Serve has returned.
C21_ServeFinalized ==
    CallerReturned
    => /\ oneMount.srv \notin {"sendErr", "sendDone"}
       /\ oneMount.srv = "exited" => oneMount.surfaced = 1

\* The value sent on m.errors is never received twice.
C21_SurfacedAtMostOnce == oneMount.surfaced <= 1

\* A Close whose two selects received from the serve goroutine leaves the
\* goroutine ended.
C21_ExitedOnlyAfterBothReceives ==
    oneMount.srv = "exited" => (oneMount.caller = "closed" /\ oneMount.surfaced = 1)

\* C22: EqualOptions(opts) is true for the MountOptions value the Mount was
\* created with, the zero value with the empty Root included, and false when
\* ReadOnly or the cleaned Root differ from the options of the Mount.
C22_EqualOptions ==
    oneMount.asked
    => /\ oneMount.askedOpts = oneMount.given => oneMount.equal
       /\ (\/ oneMount.askedOpts.ReadOnly # oneMount.options.ReadOnly
           \/ PathClean(oneMount.askedOpts.Root) # PathClean(oneMount.options.Root))
          => ~oneMount.equal

\* The same for a Mount created with a Root that is not empty.
C22_EqualOptionsWithRoot == oneMount.given.Root # <<>> => C22_EqualOptions

(***************************************************************************)
(* Observations on Reader.Read.                                             *)
(***************************************************************************)
\* A Read returned fewer than len(p) bytes only together with an error, which
\* is io.EOF on a compressed object, with the cursor at its end or beyond.
ShortReadHasError ==
    (rlast.op = "Read" /\ rlast.err # "panic" /\ rlast.ret < rlast.arg)
    => /\ rlast.err # nil
       /\ Compressed => (rlast.err = EOF /\ rpos >= Len(obj.plain))

\* A Read over a chunk boundary filled p.
ReadCrossesChunks ==
    (Compressed /\ rlast.op = "Read" /\ rlast.posBefore + rlast.arg <= Len(obj.plain))
    => (rlast.ret = rlast.arg /\ rlast.err = nil)

\* C33 as stated: a Read crosses chunk boundaries to fill p, it returns fewer
\* than len(p) bytes only with an error (io.EOF at the end), and every Read
\* after one that returned io.EOF, with no Seek in between, returns 0 bytes and
\* io.EOF.
C33_ReadUntilEOF ==
    /\ ShortReadHasError
    /\ ReadCrossesChunks
    /\ (Compressed /\ rlast.op = "Read" /\ rlast.eofBefore)
       => (rlast.ret = 0 /\ rlast.err = EOF)

\* C33 amended: the Reads after io.EOF that return 0 bytes and io.EOF are those
\* with len(p) > 0; a Read with len(p) = 0 returns (0, nil) also then.
C33_ReadUntilEOFAmended ==
    /\ ShortReadHasError
    /\ ReadCrossesChunks
    /\ (Compressed /\ rlast.op = "Read" /\ rlast.eofBefore)
       => /\ rlast.ret = 0
          /\ rlast.arg > 0 => rlast.err = EOF
          /\ rlast.arg = 0 => rlast.err = nil

\* A Read of two bytes was filled from two chunks.
C33_WitnessCross ==
    /\ Compressed
    /\ rlast.op = "Read"
    /\ rlast.arg = ChunkSize
    /\ rlast.posBefore % ChunkSize = 1
    /\ rlast.ret = rlast.arg

\* A Read with len(p) > 0 after a short Read that returned io.EOF, a Read of
\* no bytes in between.
C33_Witness ==
    /\ Compressed
    /\ Len(obj.plain) > ChunkSize
    /\ rlast.op = "Read"
    /\ rlast.arg > 0
    /\ rlast.eofBefore
    /\ rlast.prevOp = "Read"
    /\ rlast.err = EOF
    /\ rpos = Len(obj.plain)

(***************************************************************************)
(* Observations on the reload of a chunk by Seek.                           *)
(***************************************************************************)
\* The plaintext offset at which the buffered chunk starts (plaintext byte k
\* is 100 + k + 1).
BufferedStart == r.chunkBuf.buf[1] - 101

\* The Reader holds a chunk of the object and off lies inside it.
InBufferedChunk(off) ==
    /\ Compressed
    /\ r.accepted
    /\ r.chunkBuf.size > 0
    /\ off >= BufferedStart
    /\ off < BufferedStart + r.chunkBuf.size

\* A step that is a Seek(off, SeekStart) into the buffered chunk reads no
\* chunk from the source and only moves the cursor in r.chunkBuf.
C34_SeekInsideStep ==
    (rlast'.op = "Seek" /\ rlast'.whence = "SeekStart" /\ InBufferedChunk(rlast'.arg))
    => /\ rlast'.loads = 0
       /\ r'.rawPos = r.rawPos
       /\ r'.chunkBuf = [r.chunkBuf EXCEPT !.readOff = rlast'.arg - BufferedStart,
                                          !.writeOff = rlast'.arg - BufferedStart]

\* C34: Seek(off, SeekStart) reloads a chunk from the source only if the
\* target chunk is not the buffered one; a seek into the buffered chunk reads
\* and decodes nothing and only moves the in-chunk cursor.
C34_NoReloadInsideChunk == [][C34_SeekInsideStep]_vars

\* What the code does: a Seek(off, SeekStart) to an offset before the end reads
\* one chunk from the source, whichever chunk is buffered.
C34_SeekAlwaysReloadsStep ==
    (Compressed /\ rlast'.op = "Seek" /\ rlast'.whence = "SeekStart"
        /\ rlast'.arg >= 0 /\ rlast'.arg < Len(obj.plain))
    => rlast'.loads = 1

C34_SeekAlwaysReloads == [][C34_SeekAlwaysReloadsStep]_vars

\* isInitialRead is false in every state.
C34_NeverInitialRead == ~r.isInitialRead

(***************************************************************************)
(* Observations on the ChunkBuffer.                                         *)
(***************************************************************************)
ChunkOffsetsInRange ==
    /\ 0 <= cbuf.c.readOff /\ cbuf.c.readOff <= cbuf.c.size
    /\ 0 <= cbuf.c.writeOff /\ cbuf.c.writeOff <= cbuf.c.size

ChunkLenInRange == 0 <= ChunkBufferLen(cbuf.c) /\ ChunkBufferLen(cbuf.c) <= cbuf.c.size

(***************************************************************************)
(* C35: in every state reached by Reset, Write, Read, Seek and WriteTo the  *)
(* offsets obey 0 <= readOff <= size and 0 <= writeOff <= size, no call     *)
(* slices out of range, and Len() lies in 0..size, also after a Seek to a   *)
(* negative target or to one past the end.                                  *)
(***************************************************************************)
C35_OffsetsInRange ==
    /\ ChunkOffsetsInRange
    /\ ChunkLenInRange
    /\ cbuf.last.err # "panic"

\* C35, the upper half: no offset ever exceeds size, and size is len(buf).
C35_UpperBounds ==
    /\ cbuf.c.readOff <= cbuf.c.size
    /\ cbuf.c.writeOff <= cbuf.c.size
    /\ cbuf.c.size = Len(cbuf.c.buf)
    /\ ChunkBufferLen(cbuf.c) >= 0

\* C35 for runs in which no Seek aimed below zero.
C35_WithoutNegativeSeek == ~cbuf.negSeek => C35_OffsetsInRange

\* C35: a Seek past the end was clamped to size.
C35_WitnessPastEnd ==
    /\ cbuf.last.op = "Seek"
    /\ ChunkSeekTarget(cbuf.last.before, cbuf.last.arg, cbuf.last.whence) > cbuf.last.before.size
    /\ cbuf.c.readOff = cbuf.c.size
    /\ cbuf.c.size > 0

\* C35: a call panicked on a buffer whose offset a Seek had left below zero.
C35_WitnessPanic == cbuf.last.err = "panic" /\ cbuf.c.readOff < 0

(***************************************************************************)
(* C36: a Write that returns copies min(len(p), size - writeOff) bytes at   *)
(* writeOff, leaves size and the buffer's length unchanged, and reports     *)
(* that number of bytes with a nil error, also when it is below len(p).     *)
(***************************************************************************)
C36_WriteFixedCapacity ==
    (cbuf.last.op = "Write" /\ cbuf.last.err # "panic") =>
        LET b == cbuf.last.before
            p == cbuf.last.data
            n == Min(Len(p), b.size - b.writeOff)
        IN  /\ cbuf.last.ret = n
            /\ cbuf.last.err = nil
            /\ cbuf.c.size = b.size
            /\ Len(cbuf.c.buf) = Len(b.buf)
            /\ cbuf.c.writeOff = b.writeOff + n
            /\ cbuf.c.readOff = b.readOff
            /\ \A i \in 1..Len(b.buf) :
                  cbuf.c.buf[i] = IF i > b.writeOff /\ i <= b.writeOff + n
                                  THEN p[i - b.writeOff] ELSE b.buf[i]

\* C36: no call but Reset changes the capacity.
C36_OnlyResetResizesStep ==
    cbuf'.last.op # "Reset" => (cbuf'.c.size = cbuf.c.size /\ Len(cbuf'.c.buf) = Len(cbuf.c.buf))

C36_OnlyResetResizes == [][C36_OnlyResetResizesStep]_vars

\* C36: a Write copied fewer bytes than it was given, and said so without error.
C36_Witness ==
    /\ cbuf.last.op = "Write"
    /\ cbuf.last.err = nil
    /\ cbuf.last.ret < cbuf.last.arg
    /\ cbuf.last.ret > 0

\* C36: a Write panicked after a Seek below zero.
C36_WitnessPanic == cbuf.last.op = "Write" /\ cbuf.last.err = "panic"

(***************************************************************************)
(* Observations on the reload of the gateway.                               *)
(***************************************************************************)
\* The goroutines in a reload that has passed its check, or in a Start.
InProgress ==
    {c \in GatewayCallers : /\ gate.g[c].call \in {"reload", "Start"}
                     /\ gate.g[c].pc \notin {"idle", "reloader"}}

\* The step is the return of a reloader that went past its check.
ReloadCompletes(c) == gate.g[c].pc = "deferred" /\ gate'.g[c].pc = "idle"

\* After a reload the gateway serves exactly when "enabled" is true.
ServingAsEnabledStep == \A c \in GatewayCallers : ReloadCompletes(c) => (Serving' <=> gate'.enabled)

\* A reload event that arrives while a reload or a Start is in progress
\* returns from its check.
NoNestedReloadStep ==
    \A c \in GatewayCallers :
        (gate.g[c].pc = "reloader" /\ gate'.g[c].pc # "reloader" /\ InProgress \ {c} # {})
        => gate'.g[c].pc = "idle"

(***************************************************************************)
(* C39: when a reload that a change of a watched key started has completed, *)
(* the gateway serves exactly when "enabled" is true, and reloads never     *)
(* nest: an event that arrives during a reload or a Start does nothing.     *)
(***************************************************************************)
C39_ReloadStep == ServingAsEnabledStep /\ NoNestedReloadStep

C39_Reload == [][C39_ReloadStep]_vars

\* C39, first half alone.
C39_ServingAsEnabled == [][ServingAsEnabledStep]_vars

\* C39, second half alone.
C39_NoNestedReload == [][NoNestedReloadStep]_vars

\* C39, second half as a state predicate: at most one reload or Start is in
\* progress.
C39_OneInProgress == Cardinality(InProgress) <= 1

\* C39 for calls that come one after the other, the Start of the daemon
\* before the first event (no server is left behind), and whose Stop returned
\* no error.
C39_SequentialStep ==
    \A c \in GatewayCallers :
        (ReloadCompletes(c) /\ ~gate.overlap /\ ~gate.g[c].stopErr /\ gate.leaked = 0)
        => (Serving' <=> gate'.enabled)

C39_Sequential == [][C39_SequentialStep]_vars

\* C39: a reload has replaced the server that was stopped by a new one.
C39_WitnessRestart ==
    /\ ~gate.overlap
    /\ gate.enabled
    /\ gate.srv = "serving"
    /\ \E c \in GatewayCallers : gate.g[c].pc = "deferred" /\ ~gate.g[c].stopErr

\* C39: a reload returns after a Stop that failed, the gateway enabled and
\* not serving, no call having run next to another.
C39_WitnessStopError ==
    /\ ~gate.overlap
    /\ gate.enabled
    /\ ~Serving
    /\ \E c \in GatewayCallers : gate.g[c].pc = "deferred" /\ gate.g[c].stopErr

\* C39: two reloads are past their check at once.
C39_WitnessNested ==
    \E c, d \in GatewayCallers :
        /\ c # d
        /\ gate.g[c].call = "reload" /\ gate.g[c].pc \notin {"idle", "reloader"}
        /\ gate.g[d].call = "reload" /\ gate.g[d].pc \notin {"idle", "reloader"}

(***************************************************************************)
(* Observations on doFetch.                                                 *)
(***************************************************************************)
\* The last call was a doFetch that came to ask the remote.
Asked == ftch.who # 0 /\ ftch.calls # <<>>

CompleteFetched == Asked /\ Len(ftch.calls) >= 2 /\ ftch.calls[2] = "FetchStore"

PartialFetched == Asked /\ Len(ftch.calls) >= 2 /\ ftch.calls[2] = "LastPatchIndex"

(***************************************************************************)
(* C40: doFetch(who) makes a complete fetch (FetchStore, then Import)       *)
(* exactly when IsCompleteFetchAllowed succeeded and answered true, and     *)
(* otherwise fetches and applies the patches after the local                *)
(* LastPatchIndex; for the owner of the repository it fetches nothing and   *)
(* returns nil.                                                             *)
(***************************************************************************)
C40_CompleteFetchWhenAllowed ==
    /\ Asked =>
          /\ CompleteFetched <=> (ftch.out.isAllowed /\ ~ftch.out.queryFails)
          /\ PartialFetched <=> ~(ftch.out.isAllowed /\ ~ftch.out.queryFails)
          /\ (CompleteFetched /\ ftch.out.fails = "none")
             => ftch.calls = <<"IsCompleteFetchAllowed", "FetchStore", "Import">>
          /\ (PartialFetched /\ ftch.out.fails = "none")
             => ftch.calls = <<"IsCompleteFetchAllowed", "LastPatchIndex", "FetchPatches",
                               "ApplyPatches">>
    /\ ftch.who = Owner => (ftch.calls = <<>> /\ ftch.err = nil)

\* C40, the owner alone: nothing is fetched, nil is returned, the local copy
\* stays.
C40_OwnSkipped == ftch.who = Owner => (ftch.calls = <<>> /\ ftch.err = nil)

\* C40: the complete fetch is made exactly when the query answered true and
\* failed.
C40_CompleteFetchWhenQueryFails ==
    Asked => (CompleteFetched <=> (ftch.out.isAllowed /\ ftch.out.queryFails))

\* C40: the remote allowed the complete fetch without error and doFetch made
\* the partial one.
C40_WitnessPartial ==
    /\ PartialFetched
    /\ ftch.out.isAllowed
    /\ ~ftch.out.queryFails
    /\ ftch.err = nil
    /\ ftch.fromIndex < MaxPatchIndex
    /\ ftch.local[ftch.who] = MaxPatchIndex

\* C40: a doFetch for the owner after a fetch from a remote.
C40_WitnessOwner ==
    /\ ftch.who = Owner
    /\ ftch.calls = <<>>
    /\ \E p \in Remotes : ftch.local[p] > 0

(***************************************************************************)
(* Observations on chunkLookup.                                             *)
(***************************************************************************)
\* The offset of a record that chunkLookup compares with the target.
OffsetOf(rec, isRawOff) == IF isRawOff THEN rec.rawOff ELSE rec.zipOff

\* chunkLookup(currOff, isRawOff) on the index of the Reader stays inside the
\* index and returns the greatest record whose offset is <= currOff together
\* with its successor (the last record twice at the end of the index).
GoodLookup(currOff, isRawOff) ==
    LET look == chunkLookup(r.index, currOff, isRawOff)
    IN  /\ ~look.panic
        /\ \E i \in 1..Len(r.index) :
              /\ look.prev = r.index[i]
              /\ OffsetOf(r.index[i], isRawOff) <= currOff
              /\ \A j \in (i + 1)..Len(r.index) :
                    OffsetOf(r.index[j], isRawOff) > currOff
              /\ look.curr = r.index[IF i = Len(r.index) THEN i ELSE i + 1]

\* C32: once the index has passed the validation, no call panics on an access
\* outside the index, and chunkLookup is good for the offsets the Reader has
\* reached: r.rawSeekOffset (fixZipChunk), r.zipSeekOffset (Seek) and the
\* position the caller was given.
C32_ChunkLookup ==
    r.accepted
    => /\ rlast.err # "panic"
       /\ GoodLookup(r.rawSeekOffset, FALSE)
       /\ GoodLookup(r.zipSeekOffset, TRUE)
       /\ GoodLookup(rpos, TRUE)

\* No call on a Reader with an accepted index panics.
C32_NoPanic == r.accepted => rlast.err # "panic"

\* The same for the objects the compressor makes.
C32_OnCompressorObjects == Compressed => C32_ChunkLookup

(***************************************************************************)
(* Observations on Repository.FS.                                           *)
(***************************************************************************)
\* C23: FS creates the filesystem of an owner at most once, also under
\* concurrent callers: all calls for an owner return the one instance that
\* fsMap holds, a call that finds an entry returns it, a filesystem is
\* read-only exactly when its owner is not the owner of the repository, and a
\* call that fails leaves fsMap as it found it.
C23_OneFSPerOwner ==
    /\ \A o \in Owners :
          /\ Cardinality(repo.handed[o]) <= 1
          /\ repo.handed[o] \subseteq {repo.fsMap[o]}
          /\ repo.fsMap[o] # NoFS => repo.created[repo.fsMap[o]].owner = o
    /\ \A i \in 1..Len(repo.created) :
          repo.created[i].readOnly <=> (repo.created[i].owner # repo.Owner)
    /\ \A g \in GatewayCallers :
          rcall[g].pc = "unlock"
          => /\ rcall[g].err # nil => (repo.fsMap = rcall[g].mapAtLock /\ rcall[g].ret = NoFS)
             /\ rcall[g].mapAtLock[rcall[g].owner] # NoFS
                => (rcall[g].ret = rcall[g].mapAtLock[rcall[g].owner] /\ rcall[g].err = nil)

\* A call for the other owner returns the filesystem an earlier call stored,
\* after a creation that failed, while another goroutine waits for the mutex.
C23_Witness ==
    \E g \in GatewayCallers :
        /\ rcall[g].pc = "unlock"
        /\ rcall[g].owner = 2
        /\ rcall[g].mapAtLock[2] # NoFS
        /\ rcall[g].ret = repo.fsMap[2]
        /\ repo.handed[2] # {}
        /\ repo.fsMap[2] > 1
        /\ \E h \in GatewayCallers \ {g} : rcall[h].pc = "lock"


(***************************************************************************)
(* Observations on the SizeAccumulator.                                     *)
(***************************************************************************)
\* No goroutine is in a Write.
AccQuiet == \A i \in AccWriters : sizeAcc.g[i].pc = "idle"

\* In every step the counter and the value Size() returns do not decrease,
\* and when all writes have returned the counter is the sum of their lengths.
C24_Step ==
    /\ sizeAcc'.size >= sizeAcc.size
    /\ sizeAcc'.seen >= sizeAcc.seen
    /\ (\A i \in AccWriters : sizeAcc'.g[i].pc = "idle") => sizeAcc'.size = sizeAcc'.returned

\* C24: when several goroutines write to one SizeAccumulator, after all writes
\* have returned Size() is the sum of the lengths of all writes, and the size
\* observed never decreases.
C24_NoLostIncrement == [][C24_Step]_vars

\* Two goroutines were in Write at once, all writes have returned, and Size()
\* returned the sum.
C24_Witness ==
    /\ AccQuiet
    /\ sizeAcc.calls = MaxWrites
    /\ sizeAcc.raced
    /\ sizeAcc.seen = sizeAcc.returned
    /\ sizeAcc.seen > NumWriters


(***************************************************************************)
(* Observations on the LimitWriter.                                         *)
(***************************************************************************)
\* C25: after any sequence of writes inner holds the first min(n, total) bytes
\* of all the buffers written, one after the other (also when one write
\* crosses the limit), and every Write reports its whole buffer as consumed,
\* without an error.
C25_LimitWriter ==
    /\ limW.inner = Take(limW.offered, Min(limW.sz, Len(limW.offered)))
    /\ limW.n = limW.lastLen
    /\ limW.err = nil

\* A write has crossed the limit and a later one was dropped whole.
C25_Witness ==
    /\ limW.sz > 0
    /\ Len(limW.inner) = limW.sz
    /\ Len(limW.offered) > limW.sz + limW.lastLen
    /\ limW.lastLen > 0
    /\ limW.writes = MaxLimitWrites


(***************************************************************************)
(* Observations on the HeaderReader.                                        *)
(***************************************************************************)
\* The first min(headMax, len(d)) bytes of the data.
HeaderPrefix == Take(hdrR.data, Min(hdrR.headMax, Len(hdrR.data)))

\* C26: the Reads deliver the data from offset 0 on, with or without a Peek
\* before them, and exactly the data once a Read returned io.EOF; Header()
\* asked after that is the first min(head_max, len(d)) bytes; a Peek() before
\* the first Read returns that prefix.
C26_HeaderReader ==
    /\ hdrR.got = Take(hdrR.data, Len(hdrR.got))
    /\ hdrR.eof => hdrR.got = hdrR.data
    /\ (hdrR.eof /\ hdrR.asked) => hdrR.header = HeaderPrefix
    /\ hdrR.peeked => hdrR.peek = HeaderPrefix

\* A Peek was made before the first Read, the Reads came to io.EOF, Header()
\* was asked, and the header is a proper part of the data.
C26_Witness ==
    /\ hdrR.peeked
    /\ hdrR.eof
    /\ hdrR.asked
    /\ hdrR.header = hdrR.peek
    /\ 0 < Len(hdrR.header)
    /\ Len(hdrR.header) < Len(hdrR.data)

\* The Reads came to io.EOF over data shorter than the header size, with no
\* Peek.
C26_WitnessShortData ==
    /\ ~hdrR.peeked
    /\ hdrR.eof
    /\ hdrR.asked
    /\ 0 < Len(hdrR.data)
    /\ Len(hdrR.data) < hdrR.headMax


(***************************************************************************)
(* Observations on the prefix reader.                                       *)
(***************************************************************************)
\* The last Seek was Seek(0, SeekStart).
SoughtToStart ==
    preR.sought /\ preR.off = 0 /\ preR.whence = "SeekStart"

\* C27: read from the start with any read sizes, a prefix reader yields the
\* prefix followed by the tail; Seek(0, SeekEnd) returns len(tail); after
\* Seek(0, SeekStart) the Reads up to io.EOF yield exactly the tail.
C27_PrefixReader ==
    /\ ~preR.sought => /\ preR.got = Take(preR.data \o preR.tail, Len(preR.got))
                       /\ preR.eof => preR.got = preR.data \o preR.tail
    /\ (preR.sought /\ preR.off = 0 /\ preR.whence = "SeekEnd" /\ preR.got = <<>>)
       => (preR.ret = Len(preR.tail) /\ preR.err = nil)
    /\ SoughtToStart => /\ preR.ret = 0
                        /\ preR.got = Take(preR.tail, Len(preR.got))
                        /\ preR.eof => preR.got = preR.tail

\* Read from the start to io.EOF with a prefix and a tail.
C27_Witness ==
    /\ ~preR.sought
    /\ preR.eof
    /\ Len(preR.data) = MaxPrefix
    /\ Len(preR.tail) = MaxTail

\* Read to io.EOF after Seek(0, SeekStart) on a reader whose prefix was not
\* read before the Seek.
C27_WitnessSeek ==
    /\ SoughtToStart
    /\ preR.eof
    /\ preR.got = preR.tail
    /\ Len(preR.data) > 0
    /\ Len(preR.tail) > 0

============================================================================
